---- MODULE Spec2Model ----
(***************************************************************************)
(* A model of the web form tester (core/): the crawler's traversal of the  *)
(* site (core/crawler.py), the persistent knowledge store                  *)
(* (core/knowledge_manager.py) with and without failing file operations,   *)
(* the retry helper (core/retry_handler.py) and the execution of scenarios *)
(* on a page (core/executor.py).  Each part has its own specification; the *)
(* variables of the other parts stay at their initial values.              *)
(***************************************************************************)
EXTENDS Integers, Sequences, FiniteSets, TLC

(***************************************************************************)
(* Bounds of the model.                                                    *)
(***************************************************************************)
\* max_depth ranges over 0..MaxDepth
MaxDepth == 2
\* a page shows at most MaxLinks anchors
MaxLinks == 2

\* update_field_result is called at most MaxCalls times
MaxCalls == 3

\* retry_action is called with attempts in 0..MaxAttempts
MaxAttempts == 3

\* cfg.get('retry_attempts', 2): the attempts crawl_site gives retry_action
RetryAttempts == 2

VARIABLES
    \* ---- crawl_site (core/crawler.py) ----
    pc,          \* where crawl_site stands: setup, loop, nav, process, returned, raised
    max_depth,   \* the max_depth argument
    visited,     \* the set visited
    to_visit,    \* the list to_visit (the frontier) of <<url, depth>>
    results,     \* the list results: the url of each scan result appended
    url,         \* the loop's current url
    depth,       \* the loop's current depth
    attempt,     \* retry_action's attempt counter during the navigation
    pages,       \* the page sessions the main loop opened in the browser context
    setupPage,   \* the throwaway setup page: none, closed, leaked
    visitLog,    \* history: each <<url, depth>> at which line 72 marked a url visited
    \* ---- the knowledge store (core/knowledge_manager.py) ----
    kfile,       \* the backing file outputs/knowledge.json: whether it exists, and its data
    klog,        \* history: per update_field_result call, the key and the normalised
                 \* (tag, name, role, placeholder) of the field passed, the key of the
                 \* scanned field the result is of, the payload, and whether the
                 \* status was 'applied'
    \* ---- page sessions on one event loop (core/executor.py) ----
    running,     \* the session the event loop is running, "none" while every session awaits
    spc,         \* per session: awaiting, call (at update_field_result), loaded (after line 54)
    sdata,       \* per session: the data its call loaded at line 54
    \* ---- the knowledge store when file operations can fail ----
    kcorrupt,    \* the backing file holds text that json.load cannot parse
    kret,        \* the last call of the store's interface: the operation, whether a file
                 \* operation of it failed, what the caller got, the key of its field,
                 \* whether its read failed, whether its write took place, and the keys
                 \* the file's data held before it
    \* ---- retry_action (core/retry_handler.py) ----
    attempts,          \* the argument attempts
    delay,             \* the argument delay
    backoff,           \* the argument backoff
    fatal_exceptions,  \* the argument fatal_exceptions: the error classes listed
    on_fail,           \* the argument on_fail: none, or a callback that returns or raises
    rpc,               \* where retry_action stands: try, failed (line 35), returned, raised
    rattempt,          \* the loop variable attempt
    last_exc,          \* the variable last_exc
    invoked,           \* history: the outcome of each invocation of the action
    slept,             \* history: each asyncio.sleep, the attempt it followed and its length
    on_fail_calls,     \* history: the argument of each call of on_fail
    routcome,          \* what the caller of retry_action gets
    \* ---- execute_scenarios_on_page (core/executor.py) ----
    scenarios,   \* the argument scenarios: a list of [selector, cases]
    xpc,         \* where the function stands: start, loop, returned
    xsi,         \* the position of the loop over scenarios (line 132)
    xci,         \* the position of the loop over the scenario's cases (line 135)
    xresults,    \* the list results
    xtrace,      \* history: what happened on the page for each result appended
    \* ---- _apply_value_to_element on a checkbox (core/executor.py) ----
    cb_payload,  \* the argument payload
    cb_box,      \* the checkbox on the page: whether it is checked
    cb_pc,       \* where the call stands: start, read (after line 34), returned
    cb_checked,  \* the variable checked
    cb_clicks,   \* history: the number of calls of el.click()
    cb_ret,      \* what the call returned
    \* ---- generate_scenarios (core/scenario_generator.py) ----
    gfields,     \* the argument fields
    max_retries, \* cfg["llm"]["max_retries"], the client's attempts per generate()
    ollama,      \* the backend: serving, or unreachable (check_available is False)
    gpc,         \* where the call stands: start, llm (line 112), fallback (line 147),
                 \* returned, raised
    gattempt,    \* the loop variable attempt of line 112
    combined,    \* the list combined
    prompt,      \* the variable prompt: the field lines and the reminders appended
    raw,         \* the variable raw: unset, None, or text
    gcalls,      \* history: per call of client.generate, the reminders in its prompt
                 \* and whether the try block it is in failed
    grequests,   \* history: the number of generation requests the client sent
    gret,        \* what the call returned
    \* ---- try_parse_json_from_raw (core/scenario_generator.py) ----
    jarray,      \* a JSON array of strings: the value the backend means to send
    jfence,      \* how the backend wraps the array's text: none, fence, json, inline
    jpc,         \* start, or done once both texts were parsed
    jbare,       \* what try_parse_json_from_raw gave for the bare text
    jwrapped,    \* what try_parse_json_from_raw gave for the wrapped text
    \* ---- OllamaClient (core/llm_handler.py) ----
    _available,  \* the attribute _available: None, True or False (as text)
    oc_retries,  \* the attribute max_retries
    oc_backend,  \* the backend now: serving or unreachable
    oc_pc,       \* idle, or attempt while generate is in its loop
    oc_attempt,  \* the loop variable attempt of generate
    oc_calls,    \* history: the number of calls made on the client
    oc_probes,   \* history: the number of GET /api/tags requests
    oc_first,    \* history: what the first check_available returned, None before it
    oc_requests, \* history: the POST requests of the current or last generate call
    oc_ret,      \* the last call: its operation and what the caller got
    \* ---- the execution stage of a scan (core/scan_service.py, main.py) ----
    sc_entry,     \* the routine that runs: run_full_scan or run_scan
    sc_pages,     \* the crawl's result: per page its url and its fields
    sc_pc,        \* generate, loop, close (the browser), report, raised
    sc_scenarios, \* the list scenarios
    sc_i,         \* the number of pages the loop has taken
    sc_results,   \* the list results_exec (exec_results)
    sc_log,       \* history: per page taken, what new_page, goto and the execution did
    sc_cause,     \* history: the call whose exception left the routine, none otherwise
    \* ---- the loop of crawl_site, call by call (core/crawler.py, core/pre_actions.py) ----
    lp_pc,        \* the call the loop stands at: loop, new_page, nav, close_nav,
                  \* pre_actions, detect, manual, input, query, inner_text, click,
                  \* evaluate, scan, links, finally, returned, raised
    lp_allow,     \* cfg.get('allow_manual_human_check')
    lp_left,      \* the number of urls left in to_visit
    lp_nav,       \* retry_action's attempt counter
    lp_reason,    \* the local reason: None, captcha, login
    lp_els,       \* the number of elements click_safe_elements found
    lp_el,        \* the position of its loop in them
    lp_pending,   \* the error in flight while the finally block runs, none otherwise
    lp_last,      \* history: the last call made and what it did
    lp_cancelled, \* history: the call the cancellation was raised in, none before
    lp_after      \* history: the calls made after the cancellation was raised

crawlVars == <<pc, max_depth, visited, to_visit, results, url, depth, attempt,
               pages, setupPage, visitLog>>

knowVars == <<kfile, klog>>

sessVars == <<running, spc, sdata>>

\* what crawl_site leaves alone, and what a call from outside a page session does
faultVars == <<kcorrupt, kret>>
retryVars == <<attempts, delay, backoff, fatal_exceptions, on_fail, rpc, rattempt,
               last_exc, invoked, slept, on_fail_calls, routcome>>

runVars == <<scenarios, xpc, xsi, xci, xresults, xtrace>>

cbVars == <<cb_payload, cb_box, cb_pc, cb_checked, cb_clicks, cb_ret>>

genVars == <<gfields, max_retries, ollama, gpc, gattempt, combined, prompt, raw,
             gcalls, grequests, gret>>

parseVars == <<jarray, jfence, jpc, jbare, jwrapped>>

clientVars == <<_available, oc_retries, oc_backend, oc_pc, oc_attempt, oc_calls,
                oc_probes, oc_first, oc_requests, oc_ret>>

scanVars == <<sc_entry, sc_pages, sc_pc, sc_scenarios, sc_i, sc_results, sc_log, sc_cause>>

passVars == <<lp_pc, lp_allow, lp_left, lp_nav, lp_reason, lp_els, lp_el, lp_pending, lp_last, lp_cancelled, lp_after>>

offCrawl == <<knowVars, sessVars, faultVars, retryVars, runVars, cbVars, genVars, parseVars, clientVars, scanVars, passVars>>
offKnow == <<crawlVars, sessVars, faultVars, retryVars, runVars, cbVars, genVars, parseVars, clientVars, scanVars, passVars>>
offSess == <<crawlVars, faultVars, retryVars, runVars, cbVars, genVars, parseVars, clientVars, scanVars, passVars>>
offStore == <<crawlVars, sessVars, retryVars, runVars, cbVars, genVars, parseVars, clientVars, scanVars, passVars>>
offRetry == <<crawlVars, knowVars, sessVars, faultVars, runVars, cbVars, genVars, parseVars, clientVars, scanVars, passVars>>
offRun == <<crawlVars, sessVars, faultVars, retryVars, cbVars, genVars, parseVars, clientVars, scanVars, passVars>>

offCheckbox == <<crawlVars, knowVars, sessVars, faultVars, retryVars, runVars, genVars, parseVars, clientVars, scanVars, passVars>>

offGen == <<crawlVars, sessVars, faultVars, retryVars, runVars, cbVars, parseVars, clientVars, scanVars, passVars>>

offParse == <<crawlVars, knowVars, sessVars, faultVars, retryVars, runVars, cbVars, genVars, clientVars, scanVars, passVars>>

offClient == <<crawlVars, knowVars, sessVars, faultVars, retryVars, runVars, cbVars, genVars, parseVars, scanVars, passVars>>

offScan == <<crawlVars, knowVars, sessVars, faultVars, retryVars, runVars, cbVars, genVars, parseVars, clientVars, passVars>>

offPass == <<crawlVars, knowVars, sessVars, faultVars, retryVars, runVars, cbVars, genVars, parseVars, clientVars, scanVars>>

vars == <<crawlVars, knowVars, sessVars, faultVars, retryVars, runVars, cbVars, genVars, parseVars, clientVars, scanVars, passVars>>

(***************************************************************************)
(* URLs.  A URL string is modelled by the parts urlparse splits it into;   *)
(* a relative reference has an empty scheme and netloc, and the empty      *)
(* string has every part empty.                                            *)
(***************************************************************************)
MkUrl(s, n, p) == [scheme |-> s, netloc |-> n, path |-> p]

EmptyHref == MkUrl("", "", "")

start_url == MkUrl("http", "a.com", "/0")

\* The href values the anchors of a page may carry.
Hrefs ==
    { MkUrl("http", "a.com", "/0"),      \* back to the seed
      MkUrl("http", "a.com", "/1"),
      MkUrl("http", "a.com", "/2"),
      MkUrl("https", "a.com", "/1"),     \* same netloc, other scheme
      MkUrl("ftp", "a.com", "/1"),       \* same netloc, not http
      MkUrl("http", "b.com", "/1"),      \* another domain
      MkUrl("", "", "/2"),               \* relative reference
      EmptyHref }                        \* anchor without href

\* What a page may show: a set of at most MaxLinks hrefs.
AnchorSets == { A \in SUBSET Hrefs : Cardinality(A) <= MaxLinks }

\* urllib.parse.urljoin(base, l) on the parts of the two strings.
urljoin(base, l) ==
    IF l = EmptyHref THEN base
    ELSE LET scheme == IF l.scheme = "" THEN base.scheme ELSE l.scheme
         IN  IF scheme # base.scheme THEN l
             ELSE IF l.netloc # "" THEN MkUrl(scheme, l.netloc, l.path)
             ELSE MkUrl(scheme, base.netloc,
                        IF l.path = "" THEN base.path ELSE l.path)

\* str.startswith('http') on the url string: its scheme begins with http.
StartsWithHttp(u) == u.scheme \in {"http", "https"}

\* The filter of extract_links, line 27.
KeepLinkNoNetloc(full, base_url) == StartsWithHttp(full)
KeepLink(full, base_url) ==
    full.netloc = base_url.netloc /\ StartsWithHttp(full)

\* What the anchor query of line 21 may give: the hrefs, or an exception.
QueryRaised == [ok |-> FALSE, hrefs |-> {}]
QueryOutcomes == { [ok |-> TRUE, hrefs |-> A] : A \in AnchorSets } \cup {QueryRaised}

\* extract_links: the set behind list(set(out)); [] when the page query raised.
extract_links(query, base_url) ==
    IF ~query.ok THEN {}
    ELSE { full \in { urljoin(base_url, l) : l \in query.hrefs \ {EmptyHref} } :
             KeepLink(full, base_url) }

\* Every order list(set(out)) may come in.
RECURSIVE Orders(_)
Orders(S) ==
    IF S = {} THEN { <<>> }
    ELSE UNION { { <<x>> \o rest : rest \in Orders(S \ {x}) } : x \in S }

InSeq(x, s) == \E i \in 1..Len(s) : s[i] = x

\* The test of line 94: may n, found on a page of depth d, be appended?
MayEnqueue(n, d, vis, tv) ==
    n \notin vis /\ ~InSeq(<<n, d + 1>>, tv)

\* The loop of lines 93-95 over new_links.
RECURSIVE EnqueueAtHead(_, _, _, _)
EnqueueAtHead(links, d, vis, tv) ==
    IF links = <<>> THEN tv
    ELSE EnqueueAtHead(Tail(links), d, vis,
                       IF MayEnqueue(Head(links), d, vis, tv)
                       THEN << <<Head(links), d + 1>> >> \o tv
                       ELSE tv)
RECURSIVE Enqueue(_, _, _, _)
Enqueue(links, d, vis, tv) ==
    IF links = <<>> THEN tv
    ELSE Enqueue(Tail(links), d, vis,
                 IF MayEnqueue(Head(links), d, vis, tv)
                 THEN Append(tv, <<Head(links), d + 1>>)
                 ELSE tv)

\* Line 70: is the popped entry skipped?
ShouldSkipDepthOnly(u, d) == d > max_depth
ShouldSkip(u, d) == u \in visited \/ d > max_depth

\* Line 91: does a page of depth d have its links extracted?
DepthAllowsInclusive(d) == d <= max_depth
DepthAllows(d) == d < max_depth

\* page.close() is called on the loop's current page (lines 80, 100).
ClosePageSkipped(ps) == ps
ClosePage(ps) == [ps EXCEPT ![Len(ps)].closeCalled = TRUE]

(***************************************************************************)
(* Strings of the knowledge store.  A string whose characters matter       *)
(* (a field attribute, a key) is the sequence of its characters; Python's  *)
(* None is a value apart from every string.                                *)
(***************************************************************************)
None == <<"None">>

UpperChars == <<"A","B","C","D","E","F","G","H","I","J","K","L","M",
                "N","O","P","Q","R","S","T","U","V","W","X","Y","Z">>
LowerChars == <<"a","b","c","d","e","f","g","h","i","j","k","l","m",
                "n","o","p","q","r","s","t","u","v","w","x","y","z">>
Whitespace == {" ", "\t", "\n"}

\* str.lower()
LowerOf == [c \in { UpperChars[i] : i \in 1..26 } |->
              LowerChars[CHOOSE i \in 1..26 : UpperChars[i] = c]]
LowerChar(c) == IF c \in DOMAIN LowerOf THEN LowerOf[c] ELSE c
lower(str) == [i \in 1..Len(str) |-> LowerChar(str[i])]

\* str.strip()
RECURSIVE lstrip(_)
lstrip(str) ==
    IF str # <<>> /\ Head(str) \in Whitespace THEN lstrip(Tail(str)) ELSE str
RECURSIVE rstrip(_)
rstrip(str) ==
    IF str # <<>> /\ str[Len(str)] \in Whitespace
    THEN rstrip(SubSeq(str, 1, Len(str) - 1))
    ELSE str
strip(str) == rstrip(lstrip(str))

\* (field.get(k) or "").lower().strip()
NormNoLower(v) == strip(IF v = None THEN <<>> ELSE v)
Norm(v) == strip(lower(IF v = None THEN <<>> ELSE v))

\* _make_key: f"{tag}|{name}|{role}|{ph}"
MakeKeyNoRole(field) ==
    Norm(field.tag) \o <<"|">> \o Norm(field.name) \o <<"|">> \o <<"|">>
        \o Norm(field.placeholder)
_make_key(field) ==
    Norm(field.tag) \o <<"|">> \o Norm(field.name) \o <<"|">> \o Norm(field.role)
        \o <<"|">> \o Norm(field.placeholder)

\* The fingerprint of the data model: the normalised (tag, name, role, placeholder).
Fingerprint(field) ==
    <<Norm(field.tag), Norm(field.name), Norm(field.role), Norm(field.placeholder)>>

(***************************************************************************)
(* The fields, cases and statuses the calls are drawn from.                *)
(***************************************************************************)
MkField(t, n, r, ph, sel) ==
    [tag |-> t, name |-> n, role |-> r, placeholder |-> ph, selector |-> sel]

\* <input name="email">
EmailField == MkField(<<"i","n","p","u","t">>, <<"e","m","a","i","l">>, None, None, "#email")
\* the same element as another scan may report it: other case, padded
EmailFieldAgain ==
    MkField(<<"I","N","P","U","T">>, <<" ","E","m","a","i","l"," ">>, None, <<>>, "form > input")
\* attributes that hold the separator
BarNameField == MkField(<<"i","n","p","u","t">>, <<"a","|","b">>, <<"c">>, None, "#f1")
BarRoleField == MkField(<<"i","n","p","u","t">>, <<"a">>, <<"b","|","c">>, None, "#f2")

ScannedFields == {EmailField, EmailFieldAgain, BarNameField, BarRoleField}

\* The field dict the executor passes: {"selector": selector}
SelectorOnly(sel) == MkField(None, None, None, None, sel)

MkCase(p, d, t) == [payload |-> p, desc |-> d, type |-> t]
Cases ==
    { MkCase("", "Empty email", "invalid"),
      MkCase("", "Empty input", "invalid"),
      MkCase("user@example.com", "Valid email", "valid") }

\* The statuses of an execution result.
Statuses == {"applied", "failed_validation", "no_validation_detected",
             "apply_failed", "element_not_found", "error"}

(***************************************************************************)
(* The knowledge store.  The timestamps (updated, first_seen) are left     *)
(* out: nothing reads them.                                                *)
(***************************************************************************)
EmptyMap == [k \in {} |-> {}]
MapPut(m, k, v) == [x \in (DOMAIN m) \cup {k} |-> IF x = k THEN v ELSE m[x]]

EmptyData == [fields |-> EmptyMap]

\* _load: the file's data, an empty store when there is no file.
_load == IF kfile.exists THEN kfile.data ELSE EmptyData

\* _save: the whole data is written.
_save(data) == [exists |-> TRUE, data |-> data]

\* The default of setdefault(key, {...}), lines 56-61.
NewEntry(field) ==
    [meta |-> [tag |-> field.tag, name |-> field.name,
               placeholder |-> field.placeholder, role |-> field.role],
     cases |-> <<>>,
     stats |-> [total |-> 0, success |-> 0, fail |-> 0]]

\* Line 65: any(c.get("payload") == payload for c in fld["cases"])
HasPayloadAndDesc(cases, scenario) ==
    \E i \in 1..Len(cases) :
        cases[i].payload = scenario.payload /\ cases[i].desc = scenario.desc
HasPayload(cases, scenario) ==
    \E i \in 1..Len(cases) : cases[i].payload = scenario.payload

\* Lines 67-71: the counters after a result of this status.
BumpStatsNotError(stats, status) ==
    [total |-> stats.total + 1,
     success |-> stats.success + (IF status # "error" THEN 1 ELSE 0),
     fail |-> stats.fail + (IF status # "error" THEN 0 ELSE 1)]
BumpStats(stats, status) ==
    [total |-> stats.total + 1,
     success |-> stats.success + (IF status \in {"applied"} THEN 1 ELSE 0),
     fail |-> stats.fail + (IF status \in {"applied"} THEN 0 ELSE 1)]

\* The field dicts the calls pass, with the key _make_key gives each and its
\* fingerprint.
FieldDicts == ScannedFields \cup { SelectorOnly(f.selector) : f \in ScannedFields }
KeyOf == [f \in FieldDicts |-> _make_key(f)]
FingerprintOf == [f \in FieldDicts |-> Fingerprint(f)]

\* update_field_result, lines 54-72: the data that is saved.
Updated(data, field, scenario, status) ==
    LET key == KeyOf[field]
        fld == IF key \in DOMAIN data.fields THEN data.fields[key]
               ELSE NewEntry(field)
        cases == IF HasPayload(fld.cases, scenario) THEN fld.cases
                 ELSE Append(fld.cases, MkCase(scenario.payload, scenario.desc,
                                               scenario.type))
    IN  [data EXCEPT !.fields =
            MapPut(data.fields, key,
                   [fld EXCEPT !.cases = cases,
                               !.stats = BumpStats(fld.stats, status)])]

\* find_field_knowledge: the entry of the field's key, None when there is none.
find_field_knowledge(field) ==
    IF KeyOf[field] \in DOMAIN _load.fields
    THEN _load.fields[KeyOf[field]]
    ELSE None

KnowStart ==
    /\ kfile = [exists |-> FALSE, data |-> EmptyData]
    /\ klog = <<>>

\* Lines 55-73 of a call whose line 54 loaded data: the update is saved.
RecordCall(data, scanned, field, scenario, status) ==
    /\ Len(klog) < MaxCalls
    /\ kfile' = _save(Updated(data, field, scenario, status))
    /\ klog' = Append(klog, [key |-> KeyOf[field], fp |-> FingerprintOf[field],
                             scanned |-> KeyOf[scanned],
                             payload |-> scenario.payload,
                             applied |-> (status = "applied")])

\* One whole call of update_field_result: load, update, save.
UpdateCall(scanned, field, scenario, status) ==
    RecordCall(_load, scanned, field, scenario, status)

\* update_field_result(field, scenario, result) called with a field descriptor.
UpdateFieldResult ==
    /\ \E field \in ScannedFields, scenario \in Cases, status \in Statuses :
         UpdateCall(field, field, scenario, status)
    /\ UNCHANGED offKnow

\* execute_scenarios_on_page, lines 153, 211, 219: the result of a case run on
\* the element of a scanned field's selector is recorded.
ExecRecord ==
    /\ \E f \in ScannedFields, case \in Cases, status \in Statuses :
         UpdateCall(f, SelectorOnly(f.selector), case, status)
    /\ UNCHANGED offKnow


(***************************************************************************)
(* crawl_site                                                              *)
(***************************************************************************)
CrawlStart ==
    /\ pc = "setup"
    /\ visited = {}
    /\ to_visit = << <<start_url, 0>> >>
    /\ results = <<>>
    /\ url = start_url
    /\ depth = 0
    /\ attempt = 0
    /\ pages = <<>>
    /\ setupPage = "none"
    /\ visitLog = <<>>

\* Lines 59-66: the throwaway page; any failure is logged and swallowed, and a
\* failure after new_page leaves the page unclosed.
Setup ==
    /\ pc = "setup"
    /\ \E outcome \in {"none", "closed", "leaked"} : setupPage' = outcome
    /\ pc' = "loop"
    /\ UNCHANGED <<max_depth, visited, to_visit, results, url, depth, attempt,
                   pages, visitLog>>
    /\ UNCHANGED offCrawl

\* Lines 68-71: pop an entry that is skipped.
PopSkip ==
    /\ pc = "loop"
    /\ to_visit # <<>>
    /\ ShouldSkip(Head(to_visit)[1], Head(to_visit)[2])
    /\ to_visit' = Tail(to_visit)
    /\ url' = Head(to_visit)[1]
    /\ depth' = Head(to_visit)[2]
    /\ UNCHANGED <<pc, max_depth, visited, results, attempt, pages, setupPage,
                   visitLog>>
    /\ UNCHANGED offCrawl

\* Lines 68-73: pop an entry, mark it visited and open its page; new_page is
\* outside every try, so its failure leaves crawl_site.
PopVisit ==
    /\ pc = "loop"
    /\ to_visit # <<>>
    /\ ~ShouldSkip(Head(to_visit)[1], Head(to_visit)[2])
    /\ to_visit' = Tail(to_visit)
    /\ url' = Head(to_visit)[1]
    /\ depth' = Head(to_visit)[2]
    /\ visited' = visited \cup {Head(to_visit)[1]}
    /\ visitLog' = Append(visitLog, Head(to_visit))
    /\ \E opened \in BOOLEAN :
         IF opened
         THEN /\ pages' = Append(pages, [url |-> Head(to_visit)[1],
                                         depth |-> Head(to_visit)[2],
                                         closeCalled |-> FALSE])
              /\ attempt' = 1
              /\ pc' = "nav"
         ELSE /\ pc' = "raised"
              /\ UNCHANGED <<pages, attempt>>
    /\ UNCHANGED <<max_depth, results, setupPage>>
    /\ UNCHANGED offCrawl

\* Lines 75-77 with retry_action's loop: one attempt of page.goto.  A failed
\* attempt that is not the last is followed by the next; the last failure
\* reaches the handler of lines 78-81, whose page.close() is unguarded.
NavAttempt ==
    /\ pc = "nav"
    /\ \E ok \in BOOLEAN, closeOk \in BOOLEAN :
         IF ok
         THEN /\ pc' = "process"
              /\ UNCHANGED <<attempt, pages>>
         ELSE IF attempt < RetryAttempts
         THEN /\ attempt' = attempt + 1
              /\ UNCHANGED <<pc, pages>>
         ELSE /\ pages' = ClosePage(pages)
              /\ pc' = IF closeOk THEN "loop" ELSE "raised"
              /\ UNCHANGED attempt
    /\ UNCHANGED <<max_depth, visited, to_visit, results, url, depth, setupPage,
                   visitLog>>
    /\ UNCHANGED offCrawl

\* Lines 83-102: the page is processed.  A failure before results.append
\* (pre-actions, detection, manual step, scan) is logged; the finally block
\* closes the page and swallows a failure of close.
Process ==
    /\ pc = "process"
    /\ \E failed \in BOOLEAN :
         IF failed
         THEN UNCHANGED <<results, to_visit>>
         ELSE /\ results' = Append(results, url)
              /\ IF DepthAllows(depth)
                 THEN \E query \in QueryOutcomes :
                        \E new_links \in Orders(extract_links(query, start_url)) :
                          to_visit' = Enqueue(new_links, depth, visited, to_visit)
                 ELSE UNCHANGED to_visit
    /\ pages' = ClosePage(pages)
    /\ pc' = "loop"
    /\ UNCHANGED <<max_depth, visited, url, depth, attempt, setupPage, visitLog>>
    /\ UNCHANGED offCrawl

\* Lines 68, 104-105: the frontier is empty and the results are returned.
Return ==
    /\ pc = "loop"
    /\ to_visit = <<>>
    /\ pc' = "returned"
    /\ UNCHANGED <<max_depth, visited, to_visit, results, url, depth, attempt,
                   pages, setupPage, visitLog>>
    /\ UNCHANGED offCrawl

(***************************************************************************)
(* Page sessions.  Each session is a coroutine of execute_scenarios_on_page *)
(* on its own page; all of them run on the one event loop of asyncio.run   *)
(* (main.py line 72).  The loop runs one coroutine at a time and switches  *)
(* only where the running one awaits.                                      *)
(***************************************************************************)
Sessions == {"s1", "s2"}

\* The scanned field whose selector the session's scenarios name.
SessionField == [s \in Sessions |-> IF s = "s1" THEN EmailField ELSE BarNameField]

SessStart ==
    /\ running = "none"
    /\ spc = [s \in Sessions |-> "awaiting"]
    /\ sdata = [s \in Sessions |-> EmptyData]

\* A session takes a step only while no other session holds the event loop.
MayStepPreemptively(s) == TRUE
MayStep(s) == running \in {"none", s}

\* executor.py lines 144-209: the await the session was suspended at completes
\* and the loop runs it up to its call of update_field_result.
Resume(s) ==
    /\ MayStep(s)
    /\ spc[s] = "awaiting"
    /\ Len(klog) < MaxCalls
    /\ running' = s
    /\ spc' = [spc EXCEPT ![s] = "call"]
    /\ UNCHANGED <<sdata, knowVars, offSess>>

\* knowledge_manager.py line 54: data = _load().  update_field_result is a
\* plain function: nothing in it awaits, so the session keeps the loop.
Load(s) ==
    /\ MayStep(s)
    /\ spc[s] = "call"
    /\ running' = s
    /\ sdata' = [sdata EXCEPT ![s] = _load]
    /\ spc' = [spc EXCEPT ![s] = "loaded"]
    /\ UNCHANGED <<knowVars, offSess>>

\* Lines 55-74: the update of the loaded data is saved and the call returns;
\* the session runs on to its next await (executor.py line 144 or 147) or to
\* its return.
Save(s) ==
    /\ MayStep(s)
    /\ spc[s] = "loaded"
    /\ \E case \in Cases, status \in Statuses :
         RecordCall(sdata[s], SessionField[s],
                    SelectorOnly(SessionField[s].selector), case, status)
    /\ running' = "none"
    /\ sdata' = [sdata EXCEPT ![s] = EmptyData]
    /\ spc' = [spc EXCEPT ![s] = "awaiting"]
    /\ UNCHANGED offSess

(***************************************************************************)
(* The knowledge store when the file operations can fail.                  *)
(***************************************************************************)
FaultStart ==
    /\ kcorrupt = FALSE
    /\ kret = [op |-> "none", failed |-> FALSE, returned |-> "none",
               key |-> <<>>, read |-> FALSE, written |-> FALSE, had |-> {}]

\* What open, read, json.load, makedirs, json.dump and os.remove raise: OSError
\* and its subclasses, and the ValueErrors JSONDecodeError and
\* UnicodeDecodeError.
ErrorKinds == {"OSError", "JSONDecodeError", "UnicodeDecodeError"}

\* except Exception (lines 18, 27, 81): every one of these kinds is caught.
CaughtByExceptException == [kind \in ErrorKinds |-> TRUE]

\* What the caller gets from a call whose file operations raised these kinds.
Outcome(kinds, value) ==
    IF \A kind \in kinds : CaughtByExceptException[kind] THEN value ELSE "raised"

\* The error of reading the file now: none when os.path.exists is false (line
\* 14); the parse error of a corrupt file; otherwise the fault of open or read.
ReadErrors(rf) ==
    IF ~kfile.exists THEN {}
    ELSE IF rf # "none" THEN {rf}
    ELSE IF kcorrupt THEN {"JSONDecodeError"}
    ELSE {}

\* Lines 18-20: what _load returns when reading failed.
LoadFailedStale == kfile.data
LoadFailed == EmptyData

\* _load, lines 12-20.
LoadedUnguarded(rf) == _load
Loaded(rf) == IF ReadErrors(rf) = {} THEN _load ELSE LoadFailed

WriteErrors(wf) == IF wf = "none" THEN {} ELSE {"OSError"}

\* _save, lines 22-28: the file after.  makedirs or open may fail, leaving the
\* file as it was; open(..., "w") truncates, so a failure of json.dump or of
\* the close leaves a text that does not parse.
Written(data, wf) ==
    CASE wf = "none" -> [file |-> _save(data), corrupt |-> FALSE]
      [] wf = "open" -> [file |-> kfile, corrupt |-> kcorrupt]
      [] wf = "dump" -> [file |-> [exists |-> TRUE, data |-> EmptyData],
                         corrupt |-> TRUE]

ReadFaults == {"none", "OSError"}
WriteFaults == {"none", "open", "dump"}

\* The fields the calls of this interface are made with, and the statuses of
\* the results: one that counts as a success and one that counts as a failure.
StoreFields == {EmailField, BarNameField}
StoreStatuses == {"applied", "error"}

\* The sum of stats.total over the entries of a store.
RECURSIVE SumTotal(_, _)
SumTotal(fields, keys) ==
    IF keys = {} THEN 0
    ELSE LET k == CHOOSE x \in keys : TRUE
         IN  fields[k].stats.total + SumTotal(fields, keys \ {k})

\* find_field_knowledge, lines 45-51.
FindFieldKnowledge ==
    /\ \E field \in StoreFields, rf \in ReadFaults :
         LET data == Loaded(rf)
         IN  kret' = [op |-> "find",
                      failed |-> ReadErrors(rf) # {},
                      returned |-> Outcome(ReadErrors(rf),
                                     IF KeyOf[field] \in DOMAIN data.fields
                                     THEN "entry" ELSE "absent"),
                      key |-> KeyOf[field],
                      read |-> ReadErrors(rf) # {},
                      written |-> FALSE,
                      had |-> DOMAIN kfile.data.fields]
    /\ UNCHANGED <<kfile, klog, kcorrupt, offStore>>

\* update_field_result, lines 53-74.
UpdateFieldResultFaulty ==
    /\ \E field \in StoreFields, scenario \in Cases, status \in StoreStatuses,
          rf \in ReadFaults, wf \in WriteFaults :
         LET data == Loaded(rf)
             w == Written(Updated(data, field, scenario, status), wf)
         IN  /\ SumTotal(data.fields, DOMAIN data.fields) < MaxCalls
             /\ kfile' = w.file
             /\ kcorrupt' = w.corrupt
             /\ kret' = [op |-> "update",
                         failed |-> ReadErrors(rf) # {} \/ WriteErrors(wf) # {},
                         returned |-> Outcome(ReadErrors(rf) \cup WriteErrors(wf),
                                              "True"),
                         key |-> KeyOf[field],
                         read |-> ReadErrors(rf) # {},
                         written |-> WriteErrors(wf) = {},
                         had |-> DOMAIN kfile.data.fields]
    /\ UNCHANGED <<klog, offStore>>

\* dict.update: the keys of data replace and extend those of base.
DictUpdate(base, data) ==
    [k \in DOMAIN base \cup DOMAIN data |->
        IF k \in DOMAIN data THEN data[k] ELSE base[k]]

\* What the generator passes to save_knowledge (scenario_generator.py lines
\* 129 and 188); the scenario lists are not looked into.
GeneratorData == { [last_generated |-> "parsed"], [last_fallback |-> "fallback"] }

\* save_knowledge, lines 40-43.
SaveKnowledge ==
    /\ \E data \in GeneratorData, rf \in ReadFaults, wf \in WriteFaults :
         LET w == Written(DictUpdate(Loaded(rf), data), wf)
         IN  /\ kfile' = w.file
             /\ kcorrupt' = w.corrupt
             /\ kret' = [op |-> "save",
                         failed |-> ReadErrors(rf) # {} \/ WriteErrors(wf) # {},
                         returned |-> Outcome(ReadErrors(rf) \cup WriteErrors(wf),
                                              "None"),
                         key |-> <<>>,
                         read |-> ReadErrors(rf) # {},
                         written |-> WriteErrors(wf) = {},
                         had |-> DOMAIN kfile.data.fields]
    /\ UNCHANGED <<klog, offStore>>

\* clear_knowledge, lines 76-82: os.remove may fail, and the file stays.
ClearKnowledge ==
    /\ \E removeFails \in BOOLEAN :
         /\ IF kfile.exists /\ ~removeFails
            THEN /\ kfile' = [exists |-> FALSE, data |-> EmptyData]
                 /\ kcorrupt' = FALSE
            ELSE UNCHANGED <<kfile, kcorrupt>>
         /\ kret' = [op |-> "clear",
                     failed |-> kfile.exists /\ removeFails,
                     returned |-> Outcome(IF kfile.exists /\ removeFails
                                          THEN {"OSError"} ELSE {}, "None"),
                     key |-> <<>>, read |-> FALSE, written |-> FALSE,
                     had |-> DOMAIN kfile.data.fields]
    /\ UNCHANGED <<klog, offStore>>

(***************************************************************************)
(* retry_action                                                            *)
(***************************************************************************)
\* The classes of what the action raises.  CancelledError derives from
\* BaseException only; the others derive from Exception.
ErrorClasses == {"ValueError", "TimeoutError", "CancelledError"}
IsException(class) == class # "CancelledError"

\* An error object: its class and the invocation that raised it.
MkError(class, at) == [kind |-> class, at |-> at]
\* The value an invocation returned.
MkResult(at) == [kind |-> "result", at |-> at]
NoError == [kind |-> "None", at |-> 0]

\* What invocation number at of the action can do: return, or raise.
ActionOutcomes(at) == {MkResult(at)} \cup { MkError(class, at) : class \in ErrorClasses }

RetryStart ==
    /\ rpc = IF attempts >= 1 THEN "try" ELSE "failed"
    /\ rattempt = 1
    /\ last_exc = NoError
    /\ invoked = <<>>
    /\ slept = <<>>
    /\ on_fail_calls = <<>>
    /\ routcome = [kind |-> "pending", value |-> NoError]

\* The defaults of line 11.
RetryIdle ==
    /\ attempts = 3
    /\ delay = 2
    /\ backoff = TRUE
    /\ fatal_exceptions = {}
    /\ on_fail = "none"
    /\ RetryStart

\* Line 24: except fatal_exceptions.
IsFatalNever(e) == FALSE
IsFatal(e) == e.kind \in fatal_exceptions

\* Line 31: if attempt == attempts: break
IsLastAttemptLate(a) == a = attempts + 1
IsLastAttempt(a) == a = attempts

\* Line 33: sleep_for
SleepForFlat(d, b, a) == d
SleepFor(d, b, a) == IF b THEN d * (2 ^ (a - 1)) ELSE d

\* Line 36: if on_fail
CallsOnFailAlways == TRUE
CallsOnFail == on_fail # "none"

\* The class of the error that an on_fail that raises raises.
OnFailErrorClass == "RuntimeError"

\* Lines 17-34: one pass of the loop.  The action is invoked; its result is
\* returned; an error of a listed class, or one that except Exception does not
\* catch, leaves retry_action at once; any other error is kept in last_exc and,
\* unless this was the last attempt, followed by the sleep.
Invoke ==
    /\ rpc = "try"
    /\ \E o \in ActionOutcomes(rattempt) :
         /\ invoked' = Append(invoked, o)
         /\ IF o.kind = "result"
            THEN /\ rpc' = "returned"
                 /\ routcome' = [kind |-> "returned", value |-> o]
                 /\ UNCHANGED <<rattempt, last_exc, slept>>
            ELSE IF IsFatal(o) \/ ~IsException(o.kind)
            THEN /\ rpc' = "raised"
                 /\ routcome' = [kind |-> "raised", value |-> o]
                 /\ UNCHANGED <<rattempt, last_exc, slept>>
            ELSE /\ last_exc' = o
                 /\ IF IsLastAttempt(rattempt)
                    THEN /\ rpc' = "failed"
                         /\ UNCHANGED <<rattempt, slept>>
                    ELSE /\ slept' = Append(slept,
                                [after |-> rattempt,
                                 for |-> SleepFor(delay, backoff, rattempt)])
                         /\ rattempt' = rattempt + 1
                         /\ UNCHANGED rpc
                 /\ UNCHANGED routcome
    /\ UNCHANGED <<attempts, delay, backoff, fatal_exceptions, on_fail, on_fail_calls>>
    /\ UNCHANGED offRetry

\* Lines 35-41: on_fail, if given, is called with last_exc; an error of its
\* own that except Exception catches is logged; then last_exc is raised (raise
\* None is a TypeError).
Fail ==
    /\ rpc = "failed"
    /\ on_fail_calls' = IF CallsOnFail THEN Append(on_fail_calls, last_exc)
                        ELSE on_fail_calls
    /\ routcome' = [kind |-> "raised",
                    value |-> IF /\ CallsOnFail
                                 /\ on_fail = "raises"
                                 /\ ~IsException(OnFailErrorClass)
                              THEN MkError(OnFailErrorClass, 0)
                              ELSE IF last_exc = NoError THEN MkError("TypeError", 0)
                              ELSE last_exc]
    /\ rpc' = "raised"
    /\ UNCHANGED <<attempts, delay, backoff, fatal_exceptions, on_fail, rattempt,
                   last_exc, invoked, slept>>
    /\ UNCHANGED offRetry

(***************************************************************************)
(* execute_scenarios_on_page                                               *)
(***************************************************************************)
\* The cases of the scenarios: one expected invalid, one expected valid, one
\* without a type (case.get("type", "") gives "").
ExecCases ==
    { MkCase("", "Empty input", "invalid"),
      MkCase("user@example.com", "Valid email", "valid"),
      MkCase("test", "Untyped input", "") }

\* The scanned fields of the page, in the order of the scan; the generator
\* makes one scenario per field, in that order (scenario_generator.py line 186).
ExecFields == <<EmailField, BarNameField>>
FieldOfSelector(sel) ==
    ExecFields[CHOOSE i \in 1..Len(ExecFields) : ExecFields[i].selector = sel]

\* The lists of cases of a scenario: up to two different cases.
CaseLists ==
    { cs \in UNION { [1..n -> ExecCases] : n \in 0..2 } :
        \A i, j \in 1..Len(cs) : cs[i] = cs[j] => i = j }

RECURSIVE CountCases(_)
CountCases(scs) ==
    IF scs = <<>> THEN 0 ELSE Len(Head(scs).cases) + CountCases(Tail(scs))

\* The lists of scenarios the function is called with.
ScenarioLists ==
    { scs \in UNION { [1..n -> [selector : {ExecFields[i].selector :
                                               i \in 1..Len(ExecFields)},
                                cases : CaseLists]] : n \in 0..Len(ExecFields) } :
        /\ \A i \in 1..Len(scs) : scs[i].selector = ExecFields[i].selector
        /\ CountCases(scs) <= MaxCalls }

RunStart ==
    /\ xpc = "start"
    /\ xsi = 1
    /\ xci = 1
    /\ xresults = <<>>
    /\ xtrace = <<>>

RunIdle ==
    /\ scenarios = <<>>
    /\ RunStart

\* What the page does during one case: whether query_selector gives an element
\* (it may give none, or raise, which line 145 turns into none); for an element,
\* whether one of the unguarded page.evaluate calls of lines 157-170 raises;
\* otherwise what _apply_value_to_element returns and whether
\* _detect_validation_feedback returns any message.
PageOutcomes ==
    { [el |-> FALSE, raised |-> FALSE, applied |-> FALSE, msgs |-> FALSE],
      [el |-> TRUE, raised |-> TRUE, applied |-> FALSE, msgs |-> FALSE] }
    \cup { [el |-> TRUE, raised |-> FALSE, applied |-> a, msgs |-> m] :
             a \in BOOLEAN, m \in BOOLEAN }

\* Lines 197-205.
ClassifyFeedbackFirst(applied, msgs, expected) ==
    IF msgs /\ expected = "valid" THEN "failed_validation"
    ELSE IF ~msgs /\ expected = "invalid" THEN "no_validation_detected"
    ELSE IF ~applied THEN "apply_failed"
    ELSE "applied"
Classify(applied, msgs, expected) ==
    IF ~applied THEN "apply_failed"
    ELSE IF msgs /\ expected = "valid" THEN "failed_validation"
    ELSE IF ~msgs /\ expected = "invalid" THEN "no_validation_detected"
    ELSE "applied"

\* Line 216: the status the handler of the outer try sets.
ErrorStatusUnset == "not_run"
ErrorStatus == "error"

\* The status of the result of a case, lines 139-216.
StatusOf(o, expected) ==
    IF ~o.el THEN "element_not_found"
    ELSE IF o.raised THEN ErrorStatus
    ELSE Classify(o.applied, o.msgs, expected)

\* Lines 153, 211, 219: each of the three paths passes its result to
\* update_field_result.
RecordsOnPathOfElement(o) == o.el
RecordsOnPath(o) == TRUE

\* Lines 124-131.
RunBegin ==
    /\ xpc = "start"
    /\ xpc' = IF scenarios = <<>> THEN "returned" ELSE "loop"
    /\ UNCHANGED <<scenarios, xsi, xci, xresults, xtrace>>
    /\ UNCHANGED <<knowVars, offRun>>

\* Lines 136-221: one case.  On each of its three paths the result is appended
\* once and passed to update_field_result.
RunCase ==
    /\ xpc = "loop"
    /\ xsi <= Len(scenarios)
    /\ xci <= Len(scenarios[xsi].cases)
    /\ \E o \in PageOutcomes :
         LET selector == scenarios[xsi].selector
             case == scenarios[xsi].cases[xci]
             res == [selector |-> selector, payload |-> case.payload,
                     desc |-> case.desc, expected |-> case.type,
                     status |-> StatusOf(o, case.type), messages |-> o.msgs]
         IN  /\ xresults' = Append(xresults, res)
             /\ xtrace' = Append(xtrace, o)
             /\ IF RecordsOnPath(o)
                THEN UpdateCall(FieldOfSelector(selector), SelectorOnly(selector),
                                case, res.status)
                ELSE UNCHANGED knowVars
    /\ xci' = xci + 1
    /\ UNCHANGED <<scenarios, xpc, xsi>>
    /\ UNCHANGED offRun

\* Lines 132-135: the cases of the scenario are done; the next scenario.
NextScenario ==
    /\ xpc = "loop"
    /\ xsi <= Len(scenarios)
    /\ xci > Len(scenarios[xsi].cases)
    /\ xsi' = xsi + 1
    /\ xci' = 1
    /\ UNCHANGED <<scenarios, xpc, xresults, xtrace>>
    /\ UNCHANGED <<knowVars, offRun>>

\* Line 222: return results.
RunReturn ==
    /\ xpc = "loop"
    /\ xsi > Len(scenarios)
    /\ xpc' = "returned"
    /\ UNCHANGED <<scenarios, xsi, xci, xresults, xtrace>>
    /\ UNCHANGED <<knowVars, offRun>>

(***************************************************************************)
(* _apply_value_to_element on a checkbox (core/executor.py, lines 24-37     *)
(* and 75-77).  The payload is a string, None or a Python bool; the page    *)
(* answers is_checked(), the evaluate() fallback and click(), or raises.    *)
(***************************************************************************)
PyTrue == <<"True">>
PyFalse == <<"False">>

\* str(payload)
str(v) ==
    CASE v = None    -> <<"N","o","n","e">>
      [] v = PyTrue  -> <<"T","r","u","e">>
      [] v = PyFalse -> <<"F","a","l","s","e">>
      [] OTHER       -> v

\* a Python bool as a value
PyBool(b) == IF b THEN PyTrue ELSE PyFalse

\* the tuple of line 35
FalsyWords ==
    { <<"f","a","l","s","e">>, <<"0">>, <<"n","o">>, <<>>, <<"o","f","f">>,
      <<"n","o","n","e">> }

\* line 35: should = str(payload).lower() not in (...)
ShouldCaseSensitive(payload) == str(payload) \notin FalsyWords
Should(payload) == lower(str(payload)) \notin FalsyWords

\* the payloads the calls are drawn from
CheckboxPayloads ==
    { <<"o","f","f">>, <<"O","F","F">>, <<"O","f","f">>, <<"f","a","l","s","e">>,
      <<"F","a","l","s","e">>, <<"0">>, <<"n","o">>, <<"N","O">>, <<>>,
      <<"n","o","n","e">>, None, PyFalse, PyTrue,
      <<"o","n">>, <<"t","r","u","e">>, <<"1">>, <<"y","e","s">>, <<" ","o","f","f">>,
      <<"o","f","f"," ">>, <<" ">>, <<"o","f">> }

CheckboxStart ==
    /\ cb_pc = "start"
    /\ cb_checked = None
    /\ cb_clicks = 0
    /\ cb_ret = None

CheckboxIdle ==
    /\ cb_payload = None
    /\ cb_box = FALSE
    /\ cb_pc = "returned"
    /\ cb_checked = None
    /\ cb_clicks = 0
    /\ cb_ret = None

\* lines 30-34: checked = await el.is_checked(), or on an exception the evaluate()
\* fallback; an exception of the fallback reaches line 75 and the call returns False.
ReadChecked ==
    /\ cb_pc = "start"
    /\ \E is_checked \in {"ok", "raises"}, evaluate \in {"ok", "raises"} :
         IF is_checked = "ok" \/ evaluate = "ok"
         THEN /\ cb_checked' = PyBool(cb_box)
              /\ cb_pc' = "read"
              /\ UNCHANGED cb_ret
         ELSE /\ cb_ret' = PyFalse
              /\ cb_pc' = "returned"
              /\ UNCHANGED cb_checked
    /\ UNCHANGED <<cb_payload, cb_box, cb_clicks>>
    /\ UNCHANGED offCheckbox

\* lines 35-37: el.click() if should differs from checked, then return True; an
\* exception of click() reaches line 75 and the call returns False.
ClickIfDiffers ==
    /\ cb_pc = "read"
    /\ IF PyBool(Should(cb_payload)) # cb_checked
       THEN /\ cb_clicks' = cb_clicks + 1
            /\ \E click \in {"ok", "raises"} :
                 IF click = "ok"
                 THEN cb_box' = ~cb_box /\ cb_ret' = PyTrue
                 ELSE cb_box' = cb_box /\ cb_ret' = PyFalse
       ELSE /\ cb_ret' = PyTrue
            /\ UNCHANGED <<cb_box, cb_clicks>>
    /\ cb_pc' = "returned"
    /\ UNCHANGED <<cb_payload, cb_checked>>
    /\ UNCHANGED offCheckbox

(***************************************************************************)
(* generate_scenarios (core/scenario_generator.py, lines 76-189) and the   *)
(* client's generate (core/llm_handler.py, lines 45-112).  A payload is     *)
(* the sequence of its characters.                                          *)
(***************************************************************************)
MaxFields == 2
MaxRetries == 2

\* sub in s
Contains(sub, s) ==
    \E i \in 0..(Len(s) - Len(sub)) : SubSeq(s, i + 1, i + Len(sub)) = sub

\* f.get(k)
Get(f, k) == IF k \in DOMAIN f THEN f[k] ELSE None

\* x or y, on strings and None
Or(x, y) == IF x = None \/ x = <<>> THEN y ELSE x

\* line 149: (f.get("name") or f.get("placeholder") or f.get("role") or "").lower()
HeuristicName(f) ==
    lower(Or(Get(f, "name"), Or(Get(f, "placeholder"), Or(Get(f, "role"), <<>>))))

\* lines 155-179: the branch taken
NumericKeywords ==
    { <<"p","h","o","n","e">>, <<"n","u","m","b","e","r">>, <<"a","g","e">>,
      <<"q","t","y">> }
Category(f) ==
    LET name == HeuristicName(f)
    IN  CASE Contains(<<"e","m","a","i","l">>, name) -> "email"
          [] ~Contains(<<"e","m","a","i","l">>, name)
             /\ Contains(<<"p","a","s","s">>, name) -> "password"
          [] ~Contains(<<"e","m","a","i","l">>, name)
             /\ ~Contains(<<"p","a","s","s">>, name)
             /\ Contains(<<"n","a","m","e">>, name) -> "name"
          [] ~Contains(<<"e","m","a","i","l">>, name)
             /\ ~Contains(<<"p","a","s","s">>, name)
             /\ ~Contains(<<"n","a","m","e">>, name)
             /\ \E k \in NumericKeywords : Contains(k, name) -> "numeric"
          [] OTHER -> "generic"

\* lines 156-184: the cases of each branch
ScriptInjection ==
    <<"<","s","c","r","i","p","t",">","a","l","e","r","t","(","1",")",
      "<","/","s","c","r","i","p","t",">">>
EmailCases ==
    << MkCase(<<>>, "Empty email", "invalid"),
       MkCase(<<"u","s","e","r","@">>, "Incomplete email", "invalid"),
       MkCase(<<"u","s","e","r","@","e","x","a","m","p","l","e",".","c","o","m">>,
              "Valid email", "valid") >>
PasswordCases ==
    << MkCase(<<>>, "Empty password", "invalid"),
       MkCase(<<"1","2","3">>, "Too short password", "invalid"),
       MkCase(<<"P","@","s","s","w","0","r","d","!">>, "Strong password", "valid") >>
NameCases ==
    << MkCase(<<>>, "Empty name", "invalid"),
       MkCase(<<"1","2","3","4">>, "Numeric name", "invalid"),
       MkCase(<<"J","o","h","n"," ","D","o","e">>, "Valid name", "valid") >>
NumericCases ==
    << MkCase(<<>>, "Empty input", "invalid"),
       MkCase(<<"a","b","c">>, "Alphabetic in numeric field", "invalid"),
       MkCase(<<"2","5">>, "Valid number", "valid") >>
GenericCasesNoProbe ==
    << MkCase(<<>>, "Empty input", "invalid"),
       MkCase(<<"t","e","s","t">>, "Normal valid input", "valid") >>
GenericCases ==
    << MkCase(<<>>, "Empty input", "invalid"),
       MkCase(<<"t","e","s","t">>, "Normal valid input", "valid"),
       MkCase(ScriptInjection, "XSS injection", "invalid") >>
CasesOf(category) ==
    CASE category = "email"    -> EmailCases
      [] category = "password" -> PasswordCases
      [] category = "name"     -> NameCases
      [] category = "numeric"  -> NumericCases
      [] OTHER                 -> GenericCases
HeuristicCases(f) == CasesOf(Category(f))

\* lines 147-186: the list fallback
Fallback(fields) ==
    [i \in 1..Len(fields) |->
        [selector |-> Get(fields[i], "selector"), tag |-> Get(fields[i], "tag"),
         cases |-> HeuristicCases(fields[i])]]

\* line 90: existing = find_field_knowledge(f), an entry or None
Known(f) == _make_key(f) \in DOMAIN _load.fields
Existing(f) == IF Known(f) THEN _load.fields[_make_key(f)] ELSE None

\* line 91: existing and existing.get("cases")
HasHistory(f) == Known(f) /\ Existing(f).cases # <<>>

\* lines 89-94: the list combined
Combined(fields) ==
    [i \in 1..Len(fields) |->
        IF HasHistory(fields[i])
        THEN [selector |-> Get(fields[i], "selector"), tag |-> Get(fields[i], "tag"),
              cases |-> Existing(fields[i]).cases]
        ELSE fields[i]]

\* build_prompt: one line per item with its selector, tag, name, placeholder and
\* role; the header and the context are the same text in every call.
build_prompt(items) ==
    [lines |-> [i \in 1..Len(items) |->
                  [selector |-> Get(items[i], "selector"), tag |-> Get(items[i], "tag"),
                   name |-> Get(items[i], "name"),
                   placeholder |-> Get(items[i], "placeholder"),
                   role |-> Get(items[i], "role")]],
     reminders |-> 0]

\* The fields of a scan and the cases of earlier results.
GenFields == {EmailField, BarNameField}
HistoryCases ==
    { MkCase(<<"o","l","d","@","x",".","y">>, "Seen before", "valid"),
      MkCase(<<>>, "Seen empty", "invalid") }
\* The fields the heuristic is applied to: keywords in the name, in the placeholder
\* or the role only, in several attributes, in upper case, and in none.
InputTag == <<"i","n","p","u","t">>
HeuristicFields ==
    { MkField(InputTag, <<"E","m","a","i","l">>, None, None, "#h1"),
      MkField(InputTag, <<"q">>, None, <<"E","m","a","i","l">>, "#h2"),
      MkField(InputTag, None, None, <<"y","o","u","r"," ","e","m","a","i","l">>, "#h3"),
      MkField(InputTag, <<>>, <<"p","a","s","s","w","o","r","d">>, None, "#h4"),
      MkField(InputTag, <<"p","a","s","s","w","o","r","d">>, None,
              <<"e","m","a","i","l">>, "#h5"),
      MkField(InputTag, <<"u","s","e","r","n","a","m","e">>, None, None, "#h6"),
      MkField(InputTag, <<"p","h","o","n","e">>, None, None, "#h7"),
      MkField(InputTag, <<"a","g","e">>, <<"n","a","m","e">>, None, "#h8"),
      MkField(InputTag, <<"q">>, <<"t","e","x","t","b","o","x">>, None, "#h9"),
      MkField(InputTag, None, None, None, "#h10") }

RECURSIVE FieldLists(_, _)
FieldLists(S, n) ==
    IF n = 0 THEN { <<>> }
    ELSE FieldLists(S, n - 1)
         \cup { Append(l, f) : l \in { m \in FieldLists(S, n - 1) : Len(m) = n - 1 },
                               f \in S }

\* What the backend may answer with, decoded: cases for a selector.
LLMCases ==
    << MkCase(<<"a","@","b",".","c">>, "Plain address", "valid"),
       MkCase(<<"a","@">>, "No domain", "invalid"),
       MkCase(<<"'"," ","O","R"," ","1","=","1">>, "SQL probe", "invalid") >>
LLMScenario(sel, cases) == [selector |-> sel, cases |-> cases]

\* The arrays that pass the validation of lines 120-126: the empty array, a scenario
\* per item of the prompt, scenarios of one case, a scenario of another selector.
AcceptedLists(items) ==
    { <<>>,
      [i \in 1..Len(items) |-> LLMScenario(Get(items[i], "selector"), LLMCases)],
      [i \in 1..Len(items) |->
          LLMScenario(Get(items[i], "selector"), SubSeq(LLMCases, 1, 1))],
      << LLMScenario("#other", LLMCases) >> }

\* client.generate, llm_handler.py lines 45-112: up to max_retries requests; the text
\* of the first that succeeds is returned, the last failure is raised; without any
\* attempt (max_retries < 1) the loop is skipped and the call returns None.
\* The text, through try_parse_json_from_raw and lines 116-126, is empty, is not
\* JSON, is not an array, has an item without selector or cases, or is accepted.
TextKinds == {"empty", "malformed", "not_list", "bad_item", "accepted"}
Responses(retries, items) ==
    IF retries < 1
    THEN { [gen |-> "None", requests |-> 0, kind |-> "empty", parsed |-> <<>>] }
    ELSE { [gen |-> "raises", requests |-> retries, kind |-> "error", parsed |-> <<>>] }
         \cup { [gen |-> "text", requests |-> k, kind |-> t, parsed |-> <<>>] :
                  k \in 1..retries, t \in TextKinds \ {"accepted"} }
         \cup { [gen |-> "text", requests |-> k, kind |-> "accepted", parsed |-> p] :
                  k \in 1..retries, p \in AcceptedLists(items) }

\* line 115: the value of raw after the call of generate
RawAfter(response) ==
    CASE response.gen = "raises" -> raw
      [] response.gen = "None"   -> "None"
      [] OTHER                   -> "text"

\* lines 135-136: the debug file is opened and raw, or str(e) when raw is not
\* set, is written; write(None) raises TypeError, and open or write may fail.
DebugWrite(r) == IF r = "None" THEN {"raises"} ELSE {"ok", "raises"}

GenStart ==
    /\ gpc = "start"
    /\ gattempt = 0
    /\ combined = <<>>
    /\ prompt = build_prompt(<<>>)
    /\ raw = "unset"
    /\ gcalls = <<>>
    /\ grequests = 0
    /\ gret = None

GenIdle ==
    /\ gfields = <<>>
    /\ max_retries = 0
    /\ ollama = "unreachable"
    /\ gpc = "returned"
    /\ gattempt = 0
    /\ combined = <<>>
    /\ prompt = build_prompt(<<>>)
    /\ raw = "unset"
    /\ gcalls = <<>>
    /\ grequests = 0
    /\ gret = None

\* An earlier run recorded a result for a scanned field under the field's own
\* descriptor (update_field_result), before this call starts.
RecordHistory ==
    /\ gpc = "start"
    /\ \E f \in GenFields, case \in HistoryCases :
         /\ ~Known(f)
         /\ UpdateCall(f, f, case, "applied")
    /\ UNCHANGED <<genVars, offGen>>

\* lines 82-111: no fields, no scenarios; otherwise combined and the prompt are
\* built and the client is asked whether the backend is available.
GenBegin ==
    /\ gpc = "start"
    /\ IF gfields = <<>>
       THEN /\ gret' = <<>>
            /\ gpc' = "returned"
            /\ UNCHANGED <<combined, prompt>>
       ELSE /\ combined' = Combined(gfields)
            /\ prompt' = build_prompt(Combined(gfields))
            /\ gpc' = IF ollama = "serving" THEN "llm" ELSE "fallback"
            /\ UNCHANGED gret
    /\ UNCHANGED <<gfields, max_retries, ollama, gattempt, raw, gcalls, grequests>>
    /\ UNCHANGED <<knowVars, offGen>>

\* lines 112-139, one pass of the loop: generate is called; an accepted array is
\* saved under last_generated and returned; on any exception of the try block the
\* handler writes the debug file, appends the reminder and the loop goes on, to the
\* fallback after the second pass.  An exception of the handler leaves the call.
GenTry ==
    /\ gpc = "llm"
    /\ \E response \in Responses(max_retries, combined) :
         /\ grequests' = grequests + response.requests
         /\ gcalls' = Append(gcalls, [reminders |-> prompt.reminders,
                                      failed |-> response.kind # "accepted"])
         /\ raw' = RawAfter(response)
         /\ IF response.kind = "accepted"
            THEN /\ kfile' = _save(DictUpdate(_load, [last_generated |-> response.parsed]))
                 /\ gret' = response.parsed
                 /\ gpc' = "returned"
                 /\ UNCHANGED <<prompt, gattempt>>
            ELSE /\ \E write \in DebugWrite(RawAfter(response)) :
                      IF write = "ok"
                      THEN /\ prompt' = [prompt EXCEPT !.reminders = @ + 1]
                           /\ gattempt' = gattempt + 1
                           /\ gpc' = IF gattempt + 1 < 2 THEN "llm" ELSE "fallback"
                      ELSE /\ gpc' = "raised"
                           /\ UNCHANGED <<prompt, gattempt>>
                 /\ UNCHANGED <<kfile, gret>>
    /\ UNCHANGED <<klog, gfields, max_retries, ollama, combined>>
    /\ UNCHANGED offGen

\* lines 147-189: the heuristic list is saved under last_fallback and returned.
GenFallback ==
    /\ gpc = "fallback"
    /\ kfile' = _save(DictUpdate(_load, [last_fallback |-> Fallback(gfields)]))
    /\ gret' = Fallback(gfields)
    /\ gpc' = "returned"
    /\ UNCHANGED <<klog, gfields, max_retries, ollama, gattempt, combined, prompt, raw,
                   gcalls, grequests>>
    /\ UNCHANGED offGen

(***************************************************************************)
(* try_parse_json_from_raw (core/scenario_generator.py, lines 46-72).  A    *)
(* text is the sequence of its characters, a run of three backticks being   *)
(* one element.                                                              *)
(***************************************************************************)
MaxItems == 1
MaxPayloadLen == 2

Backticks == "BACKTICKS"
Quote == "\""

\* the least and the greatest position of c in s, 0 when there is none
\* (str.find and str.rfind give -1)
find(s, c) ==
    IF \E i \in 1..Len(s) : s[i] = c
    THEN CHOOSE i \in 1..Len(s) : s[i] = c /\ \A j \in 1..(i - 1) : s[j] # c
    ELSE 0
rfind(s, c) ==
    IF \E i \in 1..Len(s) : s[i] = c
    THEN CHOOSE i \in 1..Len(s) : s[i] = c /\ \A j \in (i + 1)..Len(s) : s[j] # c
    ELSE 0

\* str.split(sep)
RECURSIVE split(_, _)
split(s, sep) ==
    IF find(s, sep) = 0 THEN << s >>
    ELSE << SubSeq(s, 1, find(s, sep) - 1) >>
         \o split(SubSeq(s, find(s, sep) + 1, Len(s)), sep)

\* json.loads on texts of arrays of strings: the value, or a failure (ValueError).
LoadsFails == [ok |-> FALSE, value |-> <<>>]
RECURSIVE LoadsItems(_, _, _)
LoadsItems(s, acc, expect) ==
    LET t == lstrip(s)
    IN  IF t = <<>> THEN LoadsFails
        ELSE IF expect = "item"
        THEN IF Head(t) = Quote /\ find(Tail(t), Quote) # 0
             THEN LoadsItems(SubSeq(t, find(Tail(t), Quote) + 2, Len(t)),
                             Append(acc, SubSeq(t, 2, find(Tail(t), Quote))),
                             "separator")
             ELSE LoadsFails
        ELSE IF Head(t) = "," THEN LoadsItems(Tail(t), acc, "item")
        ELSE IF Head(t) = "]" /\ lstrip(Tail(t)) = <<>>
        THEN [ok |-> TRUE, value |-> acc]
        ELSE LoadsFails
json_loads(s) ==
    LET t == lstrip(s)
    IN  IF t = <<>> \/ Head(t) # "[" THEN LoadsFails
        ELSE IF lstrip(Tail(t)) # <<>> /\ Head(lstrip(Tail(t))) = "]"
        THEN IF lstrip(Tail(lstrip(Tail(t)))) = <<>>
             THEN [ok |-> TRUE, value |-> <<>>]
             ELSE LoadsFails
        ELSE LoadsItems(Tail(t), <<>>, "item")

\* json.dumps of an array of strings
RECURSIVE json_dumps_items(_)
json_dumps_items(a) ==
    IF a = <<>> THEN <<>>
    ELSE << Quote >> \o Head(a) \o << Quote >>
         \o (IF Tail(a) = <<>> THEN <<>> ELSE << ",", " " >> \o json_dumps_items(Tail(a)))
json_dumps(a) == << "[" >> \o json_dumps_items(a) \o << "]" >>

\* lines 58-64: the text after the fence handling
StartsWithAny(p, cs) == p # <<>> /\ Head(p) \in cs
Unfenced(cleaned) ==
    IF StartsWithAny(cleaned, {Backticks})
    THEN LET parts == split(cleaned, Backticks)
             hits == { i \in 1..Len(parts) : StartsWithAny(strip(parts[i]), {"[", "{"}) }
         IN  IF hits = {} THEN cleaned
             ELSE strip(parts[CHOOSE i \in hits : \A j \in hits : i <= j])
    ELSE cleaned

\* lines 66-69: cut after the last "]" and before the first "["
CutAfterLast(cleaned) ==
    IF rfind(cleaned, "]") # 0 THEN SubSeq(cleaned, 1, rfind(cleaned, "]")) ELSE cleaned
CutBeforeFirst(cleaned) ==
    IF find(cleaned, "[") # 0 THEN SubSeq(cleaned, find(cleaned, "["), Len(cleaned))
    ELSE cleaned

try_parse_json_from_raw(raw_text) ==
    json_loads(CutBeforeFirst(CutAfterLast(Unfenced(strip(raw_text)))))

\* The arrays and the wrappings the texts are drawn from: payloads of letters,
\* brackets and backtick runs.
PayloadChars == {"a", "[", "]", Backticks}
RECURSIVE Payloads(_)
Payloads(n) ==
    IF n = 0 THEN { <<>> }
    ELSE Payloads(n - 1)
         \cup { Append(p, c) : p \in { q \in Payloads(n - 1) : Len(q) = n - 1 },
                               c \in PayloadChars }
RECURSIVE Arrays(_)
Arrays(n) ==
    IF n = 0 THEN { <<>> }
    ELSE Arrays(n - 1)
         \cup { Append(a, p) : a \in { b \in Arrays(n - 1) : Len(b) = n - 1 },
                               p \in Payloads(MaxPayloadLen) }
Fences == {"none", "fence", "json", "inline"}
Wrap(text, fence) ==
    CASE fence = "fence"  -> << Backticks, "\n" >> \o text \o << "\n", Backticks >>
      [] fence = "json"   -> << Backticks, "j", "s", "o", "n", "\n" >> \o text
                             \o << "\n", Backticks >>
      [] fence = "inline" -> << Backticks >> \o text \o << Backticks >>
      [] OTHER            -> text

ParseStart ==
    /\ jpc = "start"
    /\ jbare = LoadsFails
    /\ jwrapped = LoadsFails

ParseIdle ==
    /\ jarray = <<>>
    /\ jfence = "none"
    /\ jpc = "done"
    /\ jbare = LoadsFails
    /\ jwrapped = LoadsFails

\* try_parse_json_from_raw is applied to the array's text and to the text wrapped.
Parse ==
    /\ jpc = "start"
    /\ jbare' = try_parse_json_from_raw(json_dumps(jarray))
    /\ jwrapped' = try_parse_json_from_raw(Wrap(json_dumps(jarray), jfence))
    /\ jpc' = "done"
    /\ UNCHANGED <<jarray, jfence>>
    /\ UNCHANGED offParse

(***************************************************************************)
(* OllamaClient (core/llm_handler.py): check_available, lines 23-35, and    *)
(* generate, lines 45-112, on one client while the backend comes and goes.  *)
(***************************************************************************)
\* lines 29-34: the probe's outcome; a refused connection is an exception, False
Probe(backend) == IF backend = "serving" THEN "True" ELSE "False"

\* lines 30 and 34: what the probe's outcome leaves in _available
MemoTrueOnly(outcome) == IF outcome = "True" THEN "True" ELSE "None"
Memo(outcome) == outcome

\* check_available: its result, the value of _available after it, its probes
CheckResult == IF _available # "None" THEN _available ELSE Probe(oc_backend)
CheckMemo == IF _available # "None" THEN _available ELSE Memo(Probe(oc_backend))
CheckProbes == IF _available # "None" THEN 0 ELSE 1

\* What a POST request ends in: the stream is read to its end, or an exception
\* (refused connection, HTTP error status, stalled stream).
RequestOutcomes(backend) ==
    IF backend = "serving" THEN {"completed", "error"} ELSE {"error"}

NoCall == [op |-> "none", kind |-> "none", value |-> "None"]

ClientStart ==
    /\ _available = "None"
    /\ oc_pc = "idle"
    /\ oc_attempt = 0
    /\ oc_calls = 0
    /\ oc_probes = 0
    /\ oc_first = "None"
    /\ oc_requests = 0
    /\ oc_ret = NoCall

ClientIdle ==
    /\ oc_retries = 0
    /\ oc_backend = "unreachable"
    /\ ClientStart

\* The backend starts or stops serving.
BackendChanges ==
    /\ oc_backend' = IF oc_backend = "serving" THEN "unreachable" ELSE "serving"
    /\ UNCHANGED <<_available, oc_retries, oc_pc, oc_attempt, oc_calls, oc_probes,
                   oc_first, oc_requests, oc_ret>>
    /\ UNCHANGED offClient

\* check_available(), lines 23-35.
CheckAvailable ==
    /\ oc_pc = "idle"
    /\ oc_calls < MaxCalls
    /\ oc_calls' = oc_calls + 1
    /\ _available' = CheckMemo
    /\ oc_probes' = oc_probes + CheckProbes
    /\ oc_first' = IF oc_first = "None" THEN CheckResult ELSE oc_first
    /\ oc_ret' = [op |-> "check_available", kind |-> "returned", value |-> CheckResult]
    /\ UNCHANGED <<oc_retries, oc_backend, oc_pc, oc_attempt, oc_requests>>
    /\ UNCHANGED offClient

\* generate(), lines 47-50: ConnectionError when the client is not available;
\* otherwise the loop starts, and a loop of no pass falls off the end of the
\* function, which returns None.
GenerateBegin ==
    /\ oc_pc = "idle"
    /\ oc_calls < MaxCalls
    /\ oc_calls' = oc_calls + 1
    /\ _available' = CheckMemo
    /\ oc_probes' = oc_probes + CheckProbes
    /\ oc_first' = IF oc_first = "None" THEN CheckResult ELSE oc_first
    /\ oc_requests' = 0
    /\ IF CheckResult # "True"
       THEN /\ oc_ret' = [op |-> "generate", kind |-> "raised",
                          value |-> "ConnectionError"]
            /\ UNCHANGED <<oc_pc, oc_attempt>>
       ELSE IF oc_retries < 1
       THEN /\ oc_ret' = [op |-> "generate", kind |-> "returned", value |-> "None"]
            /\ UNCHANGED <<oc_pc, oc_attempt>>
       ELSE /\ oc_pc' = "attempt"
            /\ oc_attempt' = 1
            /\ oc_ret' = [op |-> "generate", kind |-> "running", value |-> "None"]
    /\ UNCHANGED <<oc_retries, oc_backend>>
    /\ UNCHANGED offClient

\* generate(), lines 51-112, one pass: the request is sent; the text of a stream
\* read to its end is returned; on an exception the loop sleeps and goes on, and
\* the last pass raises it.
GenerateAttempt ==
    /\ oc_pc = "attempt"
    /\ oc_requests' = oc_requests + 1
    /\ \E request \in RequestOutcomes(oc_backend) :
         IF request = "completed"
         THEN /\ oc_ret' = [op |-> "generate", kind |-> "returned", value |-> "text"]
              /\ oc_pc' = "idle"
              /\ UNCHANGED oc_attempt
         ELSE IF oc_attempt < oc_retries
         THEN /\ oc_attempt' = oc_attempt + 1
              /\ UNCHANGED <<oc_pc, oc_ret>>
         ELSE /\ oc_ret' = [op |-> "generate", kind |-> "raised", value |-> "error"]
              /\ oc_pc' = "idle"
              /\ UNCHANGED oc_attempt
    /\ UNCHANGED <<_available, oc_retries, oc_backend, oc_calls, oc_probes, oc_first>>
    /\ UNCHANGED offClient

(***************************************************************************)
(* The generation and execution stages of a scan: run_full_scan             *)
(* (core/scan_service.py, lines 39-111) and run_scan (main.py, lines        *)
(* 28-61).                                                                  *)
(***************************************************************************)
MaxPages == 2

\* The pages a crawl may return: the fields scanned on each.
PageFieldLists == { <<>>, <<EmailField>>, <<BarNameField>>, <<EmailField, BarNameField>> }
RECURSIVE PageLists(_)
PageLists(n) ==
    IF n = 0 THEN { <<>> }
    ELSE PageLists(n - 1)
         \cup { Append(l, [url |-> Len(l), fields |-> fs]) :
                  l \in { m \in PageLists(n - 1) : Len(m) = n - 1 },
                  fs \in PageFieldLists }

\* scan_service.py lines 40-42, main.py lines 28-30: all_fields
RECURSIVE AllFieldsUpTo(_, _)
AllFieldsUpTo(ps, n) ==
    IF n = 0 THEN <<>> ELSE AllFieldsUpTo(ps, n - 1) \o ps[n].fields
all_fields(ps) == AllFieldsUpTo(ps, Len(ps))

\* What generate_scenarios may return for the fields: nothing for no fields, the
\* heuristic list, or an array of the backend that passed the validation.
GeneratedFor(fields) ==
    IF fields = <<>> THEN { <<>> }
    ELSE { Fallback(fields) } \cup AcceptedLists(Combined(fields))

\* scan_service.py lines 83-84, main.py line 47: the scenarios whose selector is the
\* selector of a field of the page
RECURSIVE Matching(_, _)
Matching(scs, fields) ==
    IF scs = <<>> THEN <<>>
    ELSE (IF \E k \in 1..Len(fields) : fields[k].selector = Head(scs).selector
          THEN << Head(scs) >> ELSE <<>>)
         \o Matching(Tail(scs), fields)

\* execute_scenarios_on_page: one result per case of each scenario, in order
\* (executor.py lines 132-222); the status is left out.
RECURSIVE ExecResults(_)
CaseResults(sc) ==
    [k \in 1..Len(sc.cases) |-> [selector |-> sc.selector, payload |-> sc.cases[k].payload]]
ExecResults(scs) ==
    IF scs = <<>> THEN <<>> ELSE CaseResults(Head(scs)) \o ExecResults(Tail(scs))

\* What the calls of one pass may do.  execute_scenarios_on_page raises when a
\* case of an accepted array is not an object (executor.py line 136 is outside the
\* try block), and not when there is no scenario to run (line 125).
PassOutcomes ==
    { [new_page |-> n, goto |-> g, execute |-> e] :
        n \in {"ok", "raises"}, g \in {"ok", "raises", "skipped"},
        e \in {"ok", "raises", "skipped"} }
PossiblePass(o, scs) ==
    /\ o.new_page = "raises" <=> o.goto = "skipped"
    /\ o.goto # "ok" <=> o.execute = "skipped"
    /\ o.execute = "raises" => scs # <<>>

\* Is the exception of a call of the pass caught by the routine?
\* run_full_scan: the try of lines 77-95 holds the three calls.
\* run_scan: only goto is in a try (lines 41-45).
CaughtByRunScan(call) == call = "goto"
Caught(entry, call) == entry = "run_full_scan" \/ CaughtByRunScan(call)

FailedCall(o) ==
    CASE o.new_page = "raises" -> "new_page"
      [] o.goto = "raises"     -> "goto"
      [] o.execute = "raises"  -> "execute"
      [] OTHER                 -> "none"

ScanStart ==
    /\ sc_pc = "generate"
    /\ sc_scenarios = <<>>
    /\ sc_i = 0
    /\ sc_results = <<>>
    /\ sc_log = <<>>
    /\ sc_cause = "none"

ScanIdle ==
    /\ sc_entry = "run_full_scan"
    /\ sc_pages = <<>>
    /\ sc_pc = "report"
    /\ sc_scenarios = <<>>
    /\ sc_i = 0
    /\ sc_results = <<>>
    /\ sc_log = <<>>
    /\ sc_cause = "none"

\* scan_service.py lines 40-68, main.py lines 28-32: the fields of every page are
\* collected and the scenarios generated for them.
ScanGenerate ==
    /\ sc_pc = "generate"
    /\ \E generated \in GeneratedFor(all_fields(sc_pages)) : sc_scenarios' = generated
    /\ sc_pc' = "loop"
    /\ UNCHANGED <<sc_entry, sc_pages, sc_i, sc_results, sc_log, sc_cause>>
    /\ UNCHANGED offScan

\* scan_service.py lines 75-95, main.py lines 39-49: one pass of the loop over the
\* pages.  A result is appended when the three calls succeeded; an exception that
\* is not caught leaves the routine.
ScanPage ==
    /\ sc_pc = "loop"
    /\ sc_i < Len(sc_pages)
    /\ LET pg == sc_pages[sc_i + 1]
           page_scenarios == Matching(sc_scenarios, pg.fields)
       IN  \E o \in PassOutcomes :
             /\ PossiblePass(o, page_scenarios)
             /\ sc_log' = Append(sc_log, o)
             /\ sc_i' = sc_i + 1
             /\ sc_results' = IF FailedCall(o) = "none"
                              THEN Append(sc_results,
                                          [page |-> pg.url,
                                           results |-> ExecResults(page_scenarios)])
                              ELSE sc_results
             /\ IF FailedCall(o) = "none" \/ Caught(sc_entry, FailedCall(o))
                THEN UNCHANGED <<sc_pc, sc_cause>>
                ELSE sc_pc' = "raised" /\ sc_cause' = FailedCall(o)
    /\ UNCHANGED <<sc_entry, sc_pages, sc_scenarios>>
    /\ UNCHANGED offScan

\* scan_service.py lines 96-111, main.py lines 50-61: the browser is closed, outside
\* any try, and the report is assembled from the results.
ScanReport ==
    /\ sc_pc = "loop"
    /\ sc_i = Len(sc_pages)
    /\ \E close \in {"ok", "raises"} :
         IF close = "ok"
         THEN sc_pc' = "report" /\ UNCHANGED sc_cause
         ELSE sc_pc' = "raised" /\ sc_cause' = "browser.close"
    /\ UNCHANGED <<sc_entry, sc_pages, sc_scenarios, sc_i, sc_results, sc_log>>
    /\ UNCHANGED offScan

(***************************************************************************)
(* The loop of crawl_site call by call (core/crawler.py lines 34-52 and     *)
(* 68-105, core/pre_actions.py lines 86-107), each call of the browser      *)
(* automation able to fail and to be cancelled.                             *)
(***************************************************************************)
\* click_safe_elements finds at most MaxElements elements
MaxElements == 2

\* What a call of the automation does: it returns, raises an error deriving from
\* Exception, or raises the CancelledError of the task's cancellation.
CallOutcomes == {"ok", "Exception", "CancelledError"}

\* The task is cancelled at most once.
Possible ==
    IF lp_cancelled # "none" THEN CallOutcomes \ {"CancelledError"} ELSE CallOutcomes

\* What ends input() (pre_actions.py line 102): the operator's ENTER, the end of
\* the operator's input (EOFError) or the operator's Ctrl-C (KeyboardInterrupt).
OperatorSignals == {"ENTER", "EOFError", "KeyboardInterrupt"}

\* except Exception (crawler.py lines 51, 78, 96; pre_actions.py) and the bare
\* except (crawler.py lines 44, 47, 49, 101).
ExceptException(o) == o \in {"Exception", "EOFError"}
BareExcept(o) == o # "ok"

Called(name, o) ==
    /\ lp_last' = [call |-> name, outcome |-> o]
    /\ lp_cancelled' = IF o = "CancelledError" THEN name ELSE lp_cancelled
    /\ lp_after' = IF lp_cancelled # "none" THEN lp_after \cup {name} ELSE lp_after

\* crawler.py line 86: if reason and cfg.get('allow_manual_human_check')
ManualWantedOnReason(reason, allow) == reason # "None"
ManualWanted(reason, allow) == reason # "None" /\ allow

PassStart ==
    /\ lp_pc = "loop"
    /\ lp_allow \in BOOLEAN
    /\ lp_left \in 1..MaxPages
    /\ lp_nav = 0
    /\ lp_reason = "None"
    /\ lp_els = 0
    /\ lp_el = 0
    /\ lp_pending = "none"
    /\ lp_last = [call |-> "none", outcome |-> "ok"]
    /\ lp_cancelled = "none"
    /\ lp_after = {}

PassIdle ==
    /\ lp_pc = "returned"
    /\ lp_allow = FALSE
    /\ lp_left = 0
    /\ lp_nav = 0
    /\ lp_reason = "None"
    /\ lp_els = 0
    /\ lp_el = 0
    /\ lp_pending = "none"
    /\ lp_last = [call |-> "none", outcome |-> "ok"]
    /\ lp_cancelled = "none"
    /\ lp_after = {}

\* Lines 68-72 and 104-105: the next url is taken, or the results are returned.
LoopHead ==
    /\ lp_pc = "loop"
    /\ IF lp_left = 0
       THEN /\ lp_pc' = "returned"
            /\ UNCHANGED lp_left
       ELSE /\ lp_pc' = "new_page"
            /\ lp_left' = lp_left - 1
    /\ lp_reason' = "None"
    /\ lp_els' = 0
    /\ lp_el' = 0
    /\ UNCHANGED <<lp_allow, lp_nav, lp_pending, lp_last, lp_cancelled, lp_after>>
    /\ UNCHANGED offPass

\* Line 73: context.new_page(), outside every try block.
NewPage ==
    /\ lp_pc = "new_page"
    /\ \E o \in Possible :
         /\ Called("context.new_page", o)
         /\ lp_pc' = IF o = "ok" THEN "nav" ELSE "raised"
    /\ lp_nav' = 1
    /\ UNCHANGED <<lp_allow, lp_left, lp_reason, lp_els, lp_el, lp_pending>>
    /\ UNCHANGED offPass

\* Lines 75-79: page.goto under retry_action.  retry_action catches Exception
\* (retry_handler.py line 27) and raises the last one after the last attempt
\* (line 41), which line 78 catches; a CancelledError passes both.
Goto ==
    /\ lp_pc = "nav"
    /\ \E o \in Possible :
         /\ Called("page.goto", o)
         /\ IF o = "ok"
            THEN /\ lp_pc' = "pre_actions"
                 /\ UNCHANGED lp_nav
            ELSE IF ExceptException(o)
            THEN IF lp_nav < RetryAttempts
                 THEN /\ lp_nav' = lp_nav + 1
                      /\ UNCHANGED lp_pc
                 ELSE /\ lp_pc' = "close_nav"
                      /\ UNCHANGED lp_nav
            ELSE /\ lp_pc' = "raised"
                 /\ UNCHANGED lp_nav
    /\ UNCHANGED <<lp_allow, lp_left, lp_reason, lp_els, lp_el, lp_pending>>
    /\ UNCHANGED offPass

\* Lines 80-81: page.close() of the except branch, itself unguarded.
CloseAfterGoto ==
    /\ lp_pc = "close_nav"
    /\ \E o \in Possible :
         /\ Called("page.close", o)
         /\ lp_pc' = IF o = "ok" THEN "loop" ELSE "raised"
    /\ UNCHANGED <<lp_allow, lp_left, lp_nav, lp_reason, lp_els, lp_el, lp_pending>>
    /\ UNCHANGED offPass

\* An error of a call inside the try block of lines 83-95: line 96 catches an
\* Exception; the finally block runs in both cases.
Raise(o) ==
    /\ lp_pc' = "finally"
    /\ lp_pending' = IF ExceptException(o) THEN "none" ELSE o

\* Line 84: auto_pre_actions catches every Exception of its calls
\* (pre_actions.py lines 29-62).
PreActions ==
    /\ lp_pc = "pre_actions"
    /\ \E o \in Possible :
         /\ Called("auto_pre_actions", o)
         /\ IF o = "ok" \/ ExceptException(o)
            THEN /\ lp_pc' = "detect"
                 /\ UNCHANGED lp_pending
            ELSE Raise(o)
    /\ UNCHANGED <<lp_allow, lp_left, lp_nav, lp_reason, lp_els, lp_el>>
    /\ UNCHANGED offPass

\* Lines 85-86: detect_captcha_or_login returns captcha, login or None, and None
\* when a call of it raised an Exception (pre_actions.py lines 69-84).
Detect ==
    /\ lp_pc = "detect"
    /\ \E o \in Possible :
         /\ Called("detect_captcha_or_login", o)
         /\ IF o = "ok" \/ ExceptException(o)
            THEN /\ \E r \in (IF o = "ok" THEN {"None", "captcha", "login"}
                              ELSE {"None"}) :
                      /\ lp_reason' = r
                      /\ lp_pc' = IF ManualWanted(r, lp_allow)
                                  THEN "manual" ELSE "query"
                 /\ UNCHANGED lp_pending
            ELSE /\ Raise(o)
                 /\ UNCHANGED lp_reason
    /\ UNCHANGED <<lp_allow, lp_left, lp_nav, lp_els, lp_el>>
    /\ UNCHANGED offPass

\* Line 87, pre_actions.py lines 91-101: manual_human_intervention starts a
\* headed browser and opens the page in it; a failure of that goto is passed
\* over, any other error leaves the function.
ManualOpen ==
    /\ lp_pc = "manual"
    /\ \E o \in Possible :
         /\ Called("chromium.launch", o)
         /\ IF o = "ok"
            THEN /\ lp_pc' = "input"
                 /\ UNCHANGED lp_pending
            ELSE Raise(o)
    /\ UNCHANGED <<lp_allow, lp_left, lp_nav, lp_reason, lp_els, lp_el>>
    /\ UNCHANGED offPass

\* pre_actions.py lines 102-107: input() holds the thread, and with it the event
\* loop, until the operator ends it; it takes no timeout.  After ENTER the
\* headed browser is closed, errors of that passed over.
OperatorSignal ==
    /\ lp_pc = "input"
    /\ \E sig \in OperatorSignals :
         /\ Called("input", sig)
         /\ IF sig = "ENTER"
            THEN /\ lp_pc' = "query"
                 /\ UNCHANGED lp_pending
            ELSE Raise(sig)
    /\ UNCHANGED <<lp_allow, lp_left, lp_nav, lp_reason, lp_els, lp_el>>
    /\ UNCHANGED offPass

\* Lines 36 and 51: query_selector_all, under the function's except Exception.
QueryElements ==
    /\ lp_pc = "query"
    /\ \E o \in Possible :
         /\ Called("page.query_selector_all", o)
         /\ IF o = "ok"
            THEN \E n \in 0..MaxElements :
                   /\ lp_els' = n
                   /\ lp_el' = 1
                   /\ lp_pc' = IF n = 0 THEN "scan" ELSE "inner_text"
                   /\ UNCHANGED lp_pending
            ELSE IF ExceptException(o)
            THEN /\ lp_pc' = "scan"
                 /\ UNCHANGED <<lp_els, lp_el, lp_pending>>
            ELSE /\ Raise(o)
                 /\ UNCHANGED <<lp_els, lp_el>>
    /\ UNCHANGED <<lp_allow, lp_left, lp_nav, lp_reason>>
    /\ UNCHANGED offPass

\* Line 37: the for loop goes to its next element, or the function returns.
NextElement ==
    IF lp_el < lp_els
    THEN /\ lp_el' = lp_el + 1
         /\ lp_pc' = "inner_text"
    ELSE /\ lp_pc' = "scan"
         /\ UNCHANGED lp_el

\* Lines 39-40 and 49-50: the element's text is read and tested; the bare
\* except of line 49 catches whatever the reading raises.
InnerText ==
    /\ lp_pc = "inner_text"
    /\ \E o \in Possible :
         /\ Called("el.inner_text", o)
         /\ IF o = "ok"
            THEN \E safe \in BOOLEAN :
                   IF safe THEN /\ lp_pc' = "click"
                                /\ UNCHANGED lp_el
                   ELSE NextElement
            ELSE /\ BareExcept(o)
                 /\ NextElement
    /\ UNCHANGED <<lp_allow, lp_left, lp_nav, lp_reason, lp_els, lp_pending>>
    /\ UNCHANGED offPass

\* Lines 42-45: the element is clicked; the bare except of line 44 catches
\* whatever the click raises and the click is made by script instead.
Click ==
    /\ lp_pc = "click"
    /\ \E o \in Possible :
         /\ Called("el.click", o)
         /\ IF o = "ok"
            THEN NextElement
            ELSE /\ BareExcept(o)
                 /\ lp_pc' = "evaluate"
                 /\ UNCHANGED lp_el
    /\ UNCHANGED <<lp_allow, lp_left, lp_nav, lp_reason, lp_els, lp_pending>>
    /\ UNCHANGED offPass

\* Lines 46-48: the click by script; the bare except of line 47 passes over
\* whatever it raises.
Evaluate ==
    /\ lp_pc = "evaluate"
    /\ \E o \in Possible :
         /\ Called("page.evaluate", o)
         /\ o = "ok" \/ BareExcept(o)
         /\ NextElement
    /\ UNCHANGED <<lp_allow, lp_left, lp_nav, lp_reason, lp_els, lp_pending>>
    /\ UNCHANGED offPass

\* Lines 89-90: the scan of the page.
Scan ==
    /\ lp_pc = "scan"
    /\ \E o \in Possible :
         /\ Called("scan_page_object", o)
         /\ IF o = "ok"
            THEN /\ lp_pc' = "links"
                 /\ UNCHANGED lp_pending
            ELSE Raise(o)
    /\ UNCHANGED <<lp_allow, lp_left, lp_nav, lp_reason, lp_els, lp_el>>
    /\ UNCHANGED offPass

\* Lines 91-95: extract_links returns [] when its call raised an Exception
\* (lines 30-32).
ExtractLinks ==
    /\ lp_pc = "links"
    /\ \E o \in Possible :
         /\ Called("extract_links", o)
         /\ IF o = "ok" \/ ExceptException(o)
            THEN /\ lp_pc' = "finally"
                 /\ UNCHANGED lp_pending
            ELSE Raise(o)
    /\ UNCHANGED <<lp_allow, lp_left, lp_nav, lp_reason, lp_els, lp_el>>
    /\ UNCHANGED offPass

\* Lines 98-102: the finally block closes the page under a bare except, then
\* the error in flight, if any, leaves crawl_site.
Finally ==
    /\ lp_pc = "finally"
    /\ \E o \in Possible :
         /\ Called("page.close", o)
         /\ o = "ok" \/ BareExcept(o)
    /\ lp_pc' = IF lp_pending = "none" THEN "loop" ELSE "raised"
    /\ UNCHANGED <<lp_allow, lp_left, lp_nav, lp_reason, lp_els, lp_el, lp_pending>>
    /\ UNCHANGED offPass

(***************************************************************************)
(* The specifications                                                      *)
(***************************************************************************)
CrawlInit ==
    /\ max_depth \in 0..MaxDepth
    /\ CrawlStart
    /\ KnowStart
    /\ SessStart
    /\ FaultStart
    /\ RetryIdle
    /\ RunIdle
    /\ CheckboxIdle
    /\ GenIdle
    /\ ParseIdle
    /\ ClientIdle
    /\ ScanIdle
    /\ PassIdle

CrawlNext == Setup \/ PopSkip \/ PopVisit \/ NavAttempt \/ Process \/ Return

SpecCrawl == CrawlInit /\ [][CrawlNext]_vars

\* crawl_site is one coroutine that is run to its end: a step that can be taken is taken.
SpecCrawlFair == SpecCrawl /\ WF_vars(CrawlNext)

(***************************************************************************)
(* The knowledge store under calls of update_field_result                  *)
(***************************************************************************)
KnowInit ==
    /\ max_depth = 0
    /\ CrawlStart
    /\ KnowStart
    /\ SessStart
    /\ FaultStart
    /\ RetryIdle
    /\ RunIdle
    /\ CheckboxIdle
    /\ GenIdle
    /\ ParseIdle
    /\ ClientIdle
    /\ ScanIdle
    /\ PassIdle

KnowNext == UpdateFieldResult

SpecKnow == KnowInit /\ [][KnowNext]_vars

(***************************************************************************)
(* The knowledge store under the executor's recording of results           *)
(***************************************************************************)
ExecNext == ExecRecord

SpecExec == KnowInit /\ [][ExecNext]_vars

(***************************************************************************)
(* The knowledge store under the calls of concurrent page sessions         *)
(***************************************************************************)
SessNext == \E s \in Sessions : Resume(s) \/ Load(s) \/ Save(s)

SpecSess == KnowInit /\ [][SessNext]_vars

(***************************************************************************)
(* The knowledge store's interface when file operations can fail           *)
(***************************************************************************)
StoreNext ==
    FindFieldKnowledge \/ UpdateFieldResultFaulty \/ SaveKnowledge \/ ClearKnowledge

SpecStore == KnowInit /\ [][StoreNext]_vars

(***************************************************************************)
(* retry_action under every choice of its arguments                        *)
(***************************************************************************)
RetryInit ==
    /\ max_depth = 0
    /\ CrawlStart
    /\ KnowStart
    /\ SessStart
    /\ FaultStart
    /\ attempts \in 0..MaxAttempts
    /\ delay \in {1, 2}
    /\ backoff \in BOOLEAN
    /\ fatal_exceptions \in {{}, {"TimeoutError"}, {"TimeoutError", "CancelledError"}}
    /\ on_fail \in {"none", "returns", "raises"}
    /\ RetryStart
    /\ RunIdle
    /\ CheckboxIdle
    /\ GenIdle
    /\ ParseIdle
    /\ ClientIdle
    /\ ScanIdle
    /\ PassIdle

RetryNext == Invoke \/ Fail

SpecRetry == RetryInit /\ [][RetryNext]_vars

(***************************************************************************)
(* execute_scenarios_on_page under every list of scenarios                 *)
(***************************************************************************)
RunInit ==
    /\ max_depth = 0
    /\ CrawlStart
    /\ KnowStart
    /\ SessStart
    /\ FaultStart
    /\ RetryIdle
    /\ scenarios \in ScenarioLists
    /\ RunStart
    /\ CheckboxIdle
    /\ GenIdle
    /\ ParseIdle
    /\ ClientIdle
    /\ ScanIdle
    /\ PassIdle

RunNext == RunBegin \/ RunCase \/ NextScenario \/ RunReturn

SpecRun == RunInit /\ [][RunNext]_vars

(***************************************************************************)
(* One call of _apply_value_to_element on a checkbox                        *)
(***************************************************************************)
CheckboxInit ==
    /\ max_depth = 0
    /\ CrawlStart
    /\ KnowStart
    /\ SessStart
    /\ FaultStart
    /\ RetryIdle
    /\ RunIdle
    /\ cb_payload \in CheckboxPayloads
    /\ cb_box \in BOOLEAN
    /\ CheckboxStart
    /\ GenIdle
    /\ ParseIdle
    /\ ClientIdle
    /\ ScanIdle
    /\ PassIdle

CheckboxNext == ReadChecked \/ ClickIfDiffers

SpecCheckbox == CheckboxInit /\ [][CheckboxNext]_vars

(***************************************************************************)
(* One call of generate_scenarios, after earlier results were recorded      *)
(***************************************************************************)
GenInit ==
    /\ max_depth = 0
    /\ CrawlStart
    /\ KnowStart
    /\ SessStart
    /\ FaultStart
    /\ RetryIdle
    /\ RunIdle
    /\ CheckboxIdle
    /\ gfields \in FieldLists(GenFields, MaxFields)
    /\ max_retries \in 0..MaxRetries
    /\ ollama \in {"serving", "unreachable"}
    /\ GenStart
    /\ ParseIdle
    /\ ClientIdle
    /\ ScanIdle
    /\ PassIdle

GenNext == RecordHistory \/ GenBegin \/ GenTry \/ GenFallback

SpecGen == GenInit /\ [][GenNext]_vars

(***************************************************************************)
(* One call of generate_scenarios while the backend is unreachable          *)
(***************************************************************************)
FallbackInit ==
    /\ max_depth = 0
    /\ CrawlStart
    /\ KnowStart
    /\ SessStart
    /\ FaultStart
    /\ RetryIdle
    /\ RunIdle
    /\ CheckboxIdle
    /\ gfields \in FieldLists(HeuristicFields, MaxFields)
    /\ max_retries = 2
    /\ ollama = "unreachable"
    /\ GenStart
    /\ ParseIdle
    /\ ClientIdle
    /\ ScanIdle
    /\ PassIdle

FallbackNext == GenBegin \/ GenFallback

SpecFallback == FallbackInit /\ [][FallbackNext]_vars

(***************************************************************************)
(* try_parse_json_from_raw on the text of an array, bare and wrapped        *)
(***************************************************************************)
ParseInit ==
    /\ max_depth = 0
    /\ CrawlStart
    /\ KnowStart
    /\ SessStart
    /\ FaultStart
    /\ RetryIdle
    /\ RunIdle
    /\ CheckboxIdle
    /\ GenIdle
    /\ jarray \in Arrays(MaxItems)
    /\ jfence \in Fences
    /\ ParseStart
    /\ ClientIdle
    /\ ScanIdle
    /\ PassIdle

ParseNext == Parse

SpecParse == ParseInit /\ [][ParseNext]_vars

(***************************************************************************)
(* Calls on one OllamaClient                                                *)
(***************************************************************************)
ClientInit ==
    /\ max_depth = 0
    /\ CrawlStart
    /\ KnowStart
    /\ SessStart
    /\ FaultStart
    /\ RetryIdle
    /\ RunIdle
    /\ CheckboxIdle
    /\ GenIdle
    /\ ParseIdle
    /\ oc_retries \in 0..MaxRetries
    /\ oc_backend \in {"serving", "unreachable"}
    /\ ClientStart
    /\ ScanIdle
    /\ PassIdle

ClientNext == BackendChanges \/ CheckAvailable \/ GenerateBegin \/ GenerateAttempt

SpecClient == ClientInit /\ [][ClientNext]_vars

(***************************************************************************)
(* The generation and execution stages of one scan                          *)
(***************************************************************************)
ScanInit ==
    /\ max_depth = 0
    /\ CrawlStart
    /\ KnowStart
    /\ SessStart
    /\ FaultStart
    /\ RetryIdle
    /\ RunIdle
    /\ CheckboxIdle
    /\ GenIdle
    /\ ParseIdle
    /\ ClientIdle
    /\ sc_entry \in {"run_full_scan", "run_scan"}
    /\ sc_pages \in PageLists(MaxPages)
    /\ ScanStart
    /\ PassIdle

ScanNext == ScanGenerate \/ ScanPage \/ ScanReport

SpecScan == ScanInit /\ [][ScanNext]_vars

(***************************************************************************)
(* The loop of crawl_site call by call                                     *)
(***************************************************************************)
PassInit ==
    /\ PassStart
    /\ max_depth = 0
    /\ CrawlStart
    /\ KnowStart
    /\ SessStart
    /\ FaultStart
    /\ RetryIdle
    /\ RunIdle
    /\ CheckboxIdle
    /\ GenIdle
    /\ ParseIdle
    /\ ClientIdle
    /\ ScanIdle

PassNext ==
    \/ LoopHead \/ NewPage \/ Goto \/ CloseAfterGoto \/ PreActions \/ Detect
    \/ ManualOpen \/ OperatorSignal \/ QueryElements \/ InnerText \/ Click
    \/ Evaluate \/ Scan \/ ExtractLinks \/ Finally

SpecPass == PassInit /\ [][PassNext]_vars

(***************************************************************************)
(* Properties of crawl_site                                                *)
(***************************************************************************)
FrontierUrls == { to_visit[i][1] : i \in 1..Len(to_visit) }

\* C1: each URL is marked visited at most once and a page session is opened
\* for it by the main loop at most once, whatever fails.
C1_VisitedOnce ==
    /\ \A i, j \in 1..Len(visitLog) : visitLog[i][1] = visitLog[j][1] => i = j
    /\ \A i, j \in 1..Len(pages) : pages[i].url = pages[j].url => i = j

\* An entry of an already visited URL was popped a second time and skipped.
C1_Witness ==
    /\ pc = "loop"
    /\ url \in visited
    /\ depth <= max_depth
    /\ ~InSeq(<<url, depth>>, visitLog)
    /\ \E i \in 1..Len(pages) : pages[i].url = url

\* C2: the frontier holds no URL twice and no URL that is already in visited
\* (a link is enqueued only if its URL is neither visited nor queued at any depth).
C2_FrontierDistinctUnvisited ==
    /\ \A i, j \in 1..Len(to_visit) : to_visit[i][1] = to_visit[j][1] => i = j
    /\ FrontierUrls \cap visited = {}

\* The depths in a state: nothing is visited, opened or processed above
\* max_depth, and with max_depth = 0 only the seed is visited and queued.
C3_DepthInv ==
    /\ \A i \in 1..Len(visitLog) : visitLog[i][2] <= max_depth
    /\ \A i \in 1..Len(pages) : pages[i].depth <= max_depth
    /\ pc = "process" => depth <= max_depth
    /\ max_depth = 0 =>
         /\ visited \subseteq {start_url}
         /\ pc \in {"nav", "process", "returned", "raised"} => visited = {start_url}
         /\ pc = "returned" => visitLog = << <<start_url, 0>> >>
         /\ to_visit \in { <<>>, << <<start_url, 0>> >> }
\* The frontier grows only while a page of depth < max_depth is processed.
C3_EnqueueStep ==
    Len(to_visit') > Len(to_visit) =>
        /\ pc = "process"
        /\ depth < max_depth
        /\ pages[Len(pages)].depth < max_depth
        /\ \A i \in (Len(to_visit) + 1)..Len(to_visit') : to_visit'[i][2] = depth + 1
\* C3: no URL is visited, and no page opened or scanned, at a depth above
\* max_depth; links are enqueued only from a page of depth < max_depth; with
\* max_depth = 0 the seed is the one URL visited and nothing is enqueued.
C3_DepthBound == [] C3_DepthInv /\ [][C3_EnqueueStep]_vars

\* With max_depth = 0 the crawl has returned with the seed's scan result.
C3_Witness ==
    max_depth = 0 /\ pc = "returned" /\ results = <<start_url>>

\* C4: the main loop reaches an empty frontier and crawl_site returns its
\* result list: as long as it has not returned it can take a step.
C4_ReturnsResults == pc = "returned" \/ ENABLED CrawlNext

\* Every run of crawl_site ends, by returning or by an exception leaving it.
CrawlEnds == <>(pc \in {"returned", "raised"})

\* The step in which the last navigation attempt fails.
C5_NavFailureStep ==
    (pc = "nav" /\ attempt = RetryAttempts /\ pc' # "process") =>
        /\ results' = results
        /\ to_visit' = to_visit
        /\ url \in visited'
        /\ pc' = "loop"
\* C5: when the navigation has failed on its last attempt, no result is
\* appended and nothing is enqueued, the URL stays visited, and crawl_site is
\* back at the head of the loop with the remaining frontier.
C5_NavFailureContinues == [][C5_NavFailureStep]_vars

\* C6: every URL in the frontier or visited has the start URL's netloc and
\* begins with http.
C6_SameDomain ==
    /\ \A u \in FrontierUrls : u.netloc = start_url.netloc /\ StartsWithHttp(u)
    /\ \A i \in 1..Len(visitLog) :
         visitLog[i][1].netloc = start_url.netloc /\ StartsWithHttp(visitLog[i][1])

\* A URL found on a page was visited after the seed.
C6_Witness ==
    \E i \in 1..Len(visitLog) : visitLog[i][2] >= 1 /\ visitLog[i][1] # start_url

(***************************************************************************)
(* Properties of the knowledge store                                       *)
(***************************************************************************)
ZeroStats == [total |-> 0, success |-> 0, fail |-> 0]

\* The counters the file holds for a key, zero when it holds no such entry.
StatsIn(file, key) ==
    IF file.exists /\ key \in DOMAIN file.data.fields
    THEN file.data.fields[key].stats
    ELSE ZeroStats

\* The calls made so far for a key, and their payloads in first-seen order.
CallsOf(key) == SelectSeq(klog, LAMBDA c : c.key = key)
RECURSIVE FirstSeen(_, _)
FirstSeen(calls, seen) ==
    IF calls = <<>> THEN seen
    ELSE FirstSeen(Tail(calls),
                   IF InSeq(Head(calls).payload, seen) THEN seen
                   ELSE Append(seen, Head(calls).payload))

\* Every persisted entry has total = success + fail.
C7_Inv ==
    \A k \in DOMAIN kfile.data.fields :
        LET st == kfile.data.fields[k].stats
        IN  st.total = st.success + st.fail
\* A call changes the counters of the entry of the key it was made for.
C7_Step ==
    Len(klog') = Len(klog) + 1 =>
        LET c == klog'[Len(klog')]
            old == StatsIn(kfile, c.key)
            new == StatsIn(kfile', c.key)
        IN  /\ kfile'.exists /\ c.key \in DOMAIN kfile'.data.fields
            /\ new.total = old.total + 1
            /\ new.success = old.success + (IF c.applied THEN 1 ELSE 0)
            /\ new.fail = old.fail + (IF c.applied THEN 0 ELSE 1)
\* C7: each update_field_result call adds 1 to the entry's total and 1 to
\* exactly one of success (the status is 'applied') and fail (any other
\* status); every persisted entry has total = success + fail.
C7_Counters == [] C7_Inv /\ [][C7_Step]_vars

\* An entry has counted both an applied result and a result of another status.
C7_Witness ==
    \E k \in DOMAIN kfile.data.fields :
        LET st == kfile.data.fields[k].stats
        IN  st.success >= 1 /\ st.fail >= 1 /\ st.total = Len(CallsOf(k))

\* C8: the cases of an entry have pairwise distinct payloads, in the order
\* the payloads were first recorded; a payload recorded again adds no case,
\* while total counts every call.
C8_CasesByPayload ==
    \A k \in DOMAIN kfile.data.fields :
        LET e == kfile.data.fields[k]
        IN  /\ \A i, j \in 1..Len(e.cases) :
                 e.cases[i].payload = e.cases[j].payload => i = j
            /\ [i \in 1..Len(e.cases) |-> e.cases[i].payload]
                 = FirstSeen(CallsOf(k), <<>>)
            /\ e.stats.total = Len(CallsOf(k))

\* Two results with the same new payload were recorded for one field: one
\* case, total 2.
C8_Witness ==
    /\ Len(klog) = 2
    /\ klog[1].key = klog[2].key
    /\ klog[1].payload = klog[2].payload
    /\ Len(kfile.data.fields[klog[1].key].cases) = 1
    /\ kfile.data.fields[klog[1].key].stats.total = 2

\* A recorded result changes the counters of the scanned field's entry.
C9_Step ==
    Len(klog') = Len(klog) + 1 =>
        LET c == klog'[Len(klog')]
            old == StatsIn(kfile, c.scanned)
            new == StatsIn(kfile', c.scanned)
        IN  /\ kfile'.exists /\ c.scanned \in DOMAIN kfile'.data.fields
            /\ new.total = old.total + 1
            /\ c.applied => new.success = old.success + 1
\* C9: when the executor records the result of a case run on a scanned
\* field, the entry whose counters change is the one of that field's
\* fingerprint key: its total grows by 1, and its success by 1 when the
\* status is 'applied'.
C9_RecordedUnderFingerprint == [][C9_Step]_vars

\* C10: two fields get the same key exactly when their normalised
\* (tag, name, role, placeholder) are equal.
C10_KeyIffFingerprint ==
    \A i, j \in 1..Len(klog) :
        (klog[i].key = klog[j].key) <=> (klog[i].fp = klog[j].fp)

(***************************************************************************)
(* Properties of the knowledge store under concurrent page sessions        *)
(***************************************************************************)
\* the sum of total over all entries of the store
TotalOfStore == SumTotal(_load.fields, DOMAIN _load.fields)

InCall(s) == spc[s] \in {"call", "loaded"}

\* C11: the load-modify-save of one session's update_field_result call is never
\* interleaved with another's (no two sessions are inside a call at once, and
\* what a call loaded is still the file's content when it saves), and once all
\* calls have completed the sum of total over all entries is the number of
\* calls made: no update is lost.
C11_NoLostUpdate ==
    /\ \A s, t \in Sessions : InCall(s) /\ InCall(t) => s = t
    /\ \A s \in Sessions : spc[s] = "loaded" => sdata[s] = _load
    /\ (\A s \in Sessions : ~InCall(s)) => TotalOfStore = Len(klog)

\* Two sessions have each completed a call, and another call has been made
\* after both.
C11_Witness ==
    /\ \A s \in Sessions : ~InCall(s)
    /\ Len(klog) >= 3
    /\ \E i, j \in 1..Len(klog) : klog[i].scanned # klog[j].scanned
    /\ TotalOfStore = Len(klog)

(***************************************************************************)
(* Properties of the knowledge store when file operations can fail         *)
(***************************************************************************)
\* C12: when reading or writing the backing file fails, find_field_knowledge
\* returns absent and update_field_result returns True; neither raises to its
\* caller.
C12_FailuresSwallowed ==
    /\ kret.op \in {"find", "update"} => kret.returned # "raised"
    /\ kret.op = "find" /\ kret.failed => kret.returned = "absent"
    /\ kret.op = "update" => kret.returned = "True"

\* A find whose read failed although the file holds entries that parse.
C12_Witness ==
    /\ kret.op = "find"
    /\ kret.failed
    /\ kfile.exists
    /\ ~kcorrupt
    /\ DOMAIN kfile.data.fields # {}
    /\ kret.returned = "absent"

\* The entries a reader of the backing file finds.
Persisted(file, corrupt) ==
    IF file.exists /\ ~corrupt THEN file.data.fields ELSE EmptyMap

IsPrefix(short, long) ==
    /\ Len(short) <= Len(long)
    /\ SubSeq(long, 1, Len(short)) = short

\* Across a call of update_field_result or save_knowledge every persisted entry
\* stays, its case list grows only by appending and no counter of it decreases;
\* after a call of clear_knowledge no field has an entry.
C13_Step ==
    LET before == Persisted(kfile, kcorrupt)
        after == Persisted(kfile', kcorrupt')
    IN  /\ kret'.op \in {"update", "save"} =>
             \A k \in DOMAIN before :
                 /\ k \in DOMAIN after
                 /\ IsPrefix(before[k].cases, after[k].cases)
                 /\ after[k].stats.total >= before[k].stats.total
                 /\ after[k].stats.success >= before[k].stats.success
                 /\ after[k].stats.fail >= before[k].stats.fail
        /\ kret'.op = "clear" => DOMAIN after = {}

\* C13: an entry once persisted is never removed or shrunk by anything but
\* clear_knowledge (update_field_result and save_knowledge only append cases and
\* increase counters), and after clear_knowledge find_field_knowledge returns
\* absent for every field.
C13_OnlyGrows == [][C13_Step]_vars

(***************************************************************************)
(* Properties of retry_action                                              *)
(***************************************************************************)
Failures == { i \in 1..Len(invoked) : invoked[i].kind # "result" }

\* C14: with attempts = n >= 1 the action is invoked at most n times; the
\* first invocation that succeeds is the last, and retry_action returns its
\* result; an action that fails k < n times and then succeeds has been invoked
\* exactly k + 1 times.
C14_InvokedUntilSuccess ==
    attempts >= 1 =>
        /\ Len(invoked) <= attempts
        /\ \A i \in 1..Len(invoked) :
             invoked[i].kind = "result" =>
                 /\ i = Len(invoked)
                 /\ rpc = "returned"
                 /\ routcome = [kind |-> "returned", value |-> invoked[i]]
                 /\ invoked[i].at = i
        /\ rpc = "returned" =>
             /\ invoked # <<>>
             /\ invoked[Len(invoked)].kind = "result"
             /\ Cardinality(Failures) < attempts
             /\ Len(invoked) = Cardinality(Failures) + 1

\* The action failed twice and then succeeded, with attempts = 3.
C14_Witness ==
    /\ attempts = 3
    /\ rpc = "returned"
    /\ Len(invoked) = 3
    /\ Cardinality(Failures) = 2

\* The failed attempts that a retry follows: caught, and not the last.
Retried ==
    { i \in 1..Len(invoked) :
        /\ invoked[i].kind # "result"
        /\ invoked[i].kind \notin fatal_exceptions
        /\ IsException(invoked[i].kind)
        /\ i < attempts }

\* C15: after failed attempt i with 1 <= i < attempts there is exactly one
\* sleep before attempt i+1, of delay * 2^(i-1) with backoff and of delay
\* without; there is no sleep after the final failed attempt, after a success
\* or after a fatal error.
C15_SleepsBetweenAttempts ==
    /\ Len(slept) = Cardinality(Retried)
    /\ \A i \in 1..Len(slept) :
         /\ i \in Retried
         /\ slept[i].after = i
         /\ slept[i].for = IF backoff THEN delay * (2 ^ (i - 1)) ELSE delay
    /\ rpc # "try" /\ invoked # <<>> => Len(slept) = Len(invoked) - 1
    /\ rpc = "try" => Len(slept) = Len(invoked)

\* All three attempts failed, with backoff and delay 2: the sleeps were 2 and 4
\* and none followed the third failure.
C15_Witness ==
    /\ attempts = 3
    /\ backoff
    /\ delay = 2
    /\ rpc = "raised"
    /\ Len(invoked) = 3
    /\ slept = << [after |-> 1, for |-> 2], [after |-> 2, for |-> 4] >>

\* C16: when an invocation raises an error of a class listed in
\* fatal_exceptions, at whichever attempt, it is the last invocation, the
\* caller gets that error, no sleep follows it and on_fail is not called.
C16_FatalPropagates ==
    \A i \in 1..Len(invoked) :
        invoked[i].kind \in fatal_exceptions =>
            /\ i = Len(invoked)
            /\ rpc = "raised"
            /\ routcome = [kind |-> "raised", value |-> invoked[i]]
            /\ Len(slept) = i - 1
            /\ on_fail_calls = <<>>

\* A listed error raised by the second invocation, with on_fail given.
C16_Witness ==
    /\ on_fail # "none"
    /\ Len(invoked) = 2
    /\ invoked[2].kind \in fatal_exceptions
    /\ invoked[1].kind = "ValueError"
    /\ rpc = "raised"

\* every attempt was made and failed with an error that is caught
AllAttemptsFailed ==
    /\ attempts >= 1
    /\ Len(invoked) = attempts
    /\ \A i \in 1..Len(invoked) :
         /\ invoked[i].kind # "result"
         /\ invoked[i].kind \notin fatal_exceptions
         /\ IsException(invoked[i].kind)

\* C17: when all attempts fail with non-fatal errors, on_fail (if given) is
\* called exactly once, after the last attempt and with the last attempt's
\* error; an error that on_fail raises is not propagated; retry_action then
\* raises the last attempt's error.
C17_OnFailThenRaise ==
    /\ Len(on_fail_calls) <= 1
    /\ on_fail_calls # <<>> => rpc = "raised" /\ on_fail # "none"
    /\ AllAttemptsFailed /\ rpc = "raised" =>
         /\ on_fail # "none" => on_fail_calls = << invoked[attempts] >>
         /\ routcome = [kind |-> "raised", value |-> invoked[attempts]]
    /\ AllAttemptsFailed => rpc \in {"failed", "raised"}

\* Both attempts failed, on_fail was called and raised, and the caller got the
\* second attempt's error.
C17_Witness ==
    /\ attempts = 2
    /\ on_fail = "raises"
    /\ AllAttemptsFailed
    /\ rpc = "raised"
    /\ on_fail_calls = << invoked[2] >>
    /\ routcome.value = invoked[2]

\* The longest sleep of a call with n attempts.
RECURSIVE LongestSleep(_, _, _)
LongestSleep(d, b, n) ==
    IF n <= 1 THEN 0
    ELSE LET rest == LongestSleep(d, b, n - 1)
             this == SleepFor(d, b, n - 1)
         IN  IF this > rest THEN this ELSE rest

\* C18: the sleep before a retry is capped: for a given base delay a fixed
\* upper bound is exceeded by no sleep however large the attempt count, so the
\* bound that the calls with fewer attempts keep is kept by every call.
C18_SleepCapped ==
    \A i \in 1..Len(slept) :
        slept[i].for <= LongestSleep(delay, backoff, MaxAttempts - 1)

(***************************************************************************)
(* Properties of execute_scenarios_on_page                                 *)
(***************************************************************************)
\* The (scenario, case) pairs of a list of scenarios from position (si, ci) on,
\* in input order.
RECURSIVE PairsFrom(_, _, _)
PairsFrom(scs, si, ci) ==
    IF si > Len(scs) THEN <<>>
    ELSE IF ci > Len(scs[si].cases) THEN PairsFrom(scs, si + 1, 1)
    ELSE << <<si, ci>> >> \o PairsFrom(scs, si, ci + 1)

Pairs == PairsFrom(scenarios, 1, 1)

\* the k-th result is that of the k-th pair
ResultOfPair(k) ==
    LET sc == scenarios[Pairs[k][1]]
        case == sc.cases[Pairs[k][2]]
    IN  /\ xresults[k].selector = sc.selector
        /\ xresults[k].payload = case.payload
        /\ xresults[k].desc = case.desc
        /\ xresults[k].expected = case.type

C20_StatusClassified ==
    \A k \in 1..Len(xresults) :
        xtrace[k].el /\ ~xtrace[k].raised =>
            LET st == xresults[k].status
                fb == xtrace[k].msgs
                expected == xresults[k].expected
            IN  IF ~xtrace[k].applied THEN st = "apply_failed"
                ELSE /\ st = "failed_validation" <=> (fb /\ expected = "valid")
                     /\ st = "no_validation_detected" <=> (~fb /\ expected = "invalid")
                     /\ st = "applied" <=> ~( \/ (fb /\ expected = "valid")
                                              \/ (~fb /\ expected = "invalid") )
                     /\ st \in {"failed_validation", "no_validation_detected", "applied"}

\* Feedback on an expected-invalid case gave applied, and a payload that could
\* not be applied gave apply_failed although feedback was detected on an
\* expected-valid case.
C20_Witness ==
    /\ \E k \in 1..Len(xresults) :
         /\ xtrace[k].el /\ xtrace[k].applied /\ xtrace[k].msgs
         /\ xresults[k].expected = "invalid"
         /\ xresults[k].status = "applied"
    /\ \E k \in 1..Len(xresults) :
         /\ xtrace[k].el /\ ~xtrace[k].raised /\ ~xtrace[k].applied /\ xtrace[k].msgs
         /\ xresults[k].expected = "valid"
         /\ xresults[k].status = "apply_failed"

\* C21: for every executed case update_field_result is called exactly once,
\* with the case's final result, on each of the three paths (element not found,
\* normal completion, exception); with working storage the sum of total over
\* the store is the number of cases executed.
C21_RecordedOncePerCase ==
    /\ Len(klog) = Len(xresults)
    /\ \A k \in 1..Len(xresults) :
         /\ klog[k].key = KeyOf[SelectorOnly(xresults[k].selector)]
         /\ klog[k].payload = xresults[k].payload
         /\ klog[k].applied = (xresults[k].status = "applied")
    /\ TotalOfStore = Len(xresults)

\* Three cases were executed, one on each path, and the function returned.
C21_Witness ==
    /\ xpc = "returned"
    /\ Len(xresults) = 3
    /\ \E i, j, k \in 1..3 :
         /\ ~xtrace[i].el
         /\ xtrace[j].el /\ xtrace[j].raised
         /\ xtrace[k].el /\ ~xtrace[k].raised
    /\ TotalOfStore = 3

(***************************************************************************)
(* Properties of _apply_value_to_element on a checkbox                      *)
(***************************************************************************)
\* the payload is falsy: its lower-cased text is one of false, 0, no, "", off, none
Falsy(payload) == lower(str(payload)) \in FalsyWords

\* C22: on a checkbox el.click() is called at most once, and, once the checked state
\* was read, exactly when the payload's truthiness differs from it: a falsy payload
\* clicks a checked box once and an unchecked box not at all, a truthy one the reverse.
C22_ClicksWhenDiffers ==
    /\ cb_clicks <= 1
    /\ cb_pc = "returned" /\ cb_checked # None =>
         (cb_clicks = 1 <=> PyBool(~Falsy(cb_payload)) # cb_checked)
    /\ cb_pc = "returned" /\ cb_checked # None /\ cb_payload = <<"o","f","f">> =>
         cb_clicks = (IF cb_checked = PyTrue THEN 1 ELSE 0)

C22_Witness ==
    /\ cb_pc = "returned"
    /\ cb_payload = <<"O","f","f">>
    /\ cb_checked = PyTrue
    /\ cb_clicks = 1
    /\ cb_box = FALSE

(***************************************************************************)
(* Properties of generate_scenarios                                         *)
(***************************************************************************)
\* the field at this position of the argument had stored cases when combined was built
ServedFromHistory(i) == "cases" \in DOMAIN combined[i]

\* a scenario of the returned list has this selector and these cases
Returns(sel, cases) ==
    \E j \in 1..Len(gret) : gret[j].selector = sel /\ gret[j].cases = cases

\* the prompt has a line for this selector
InPrompt(sel) == \E j \in 1..Len(prompt.lines) : prompt.lines[j].selector = sel

\* C23: for a field whose fingerprint has stored cases the call returns, for the
\* field's selector, the stored cases, and the field is not in the prompt, on the
\* LLM path and on the fallback path.
C23_HistoryServed ==
    gpc = "returned" /\ gfields # <<>> =>
        \A i \in 1..Len(gfields) :
            ServedFromHistory(i) =>
                /\ Returns(gfields[i].selector, Existing(gfields[i]).cases)
                /\ ~InPrompt(gfields[i].selector)

\* C24: generate_scenarios never raises to its caller, whatever the backend does
\* and whatever the store holds.
C24_NeverRaises == gpc # "raised"

\* C25: after the call returned cases for a field with no history,
\* find_field_knowledge for the field returns an entry holding those cases.
C25_ReturnedCasesFound ==
    gpc = "returned" /\ gfields # <<>> =>
        \A i \in 1..Len(gfields) :
            \A j \in 1..Len(gret) :
                ~ServedFromHistory(i) /\ gret[j].selector = gfields[i].selector =>
                    /\ Known(gfields[i])
                    /\ Existing(gfields[i]).cases = gret[j].cases

\* C26: generate is called at most twice; a second call follows a failed first one
\* and has the reminder in its prompt; after a first failure exactly one more call
\* is made; after a second failure the heuristic fallback is returned; at most
\* 2 * max_retries requests are sent.
C26_AtMostTwoCalls ==
    /\ Len(gcalls) <= 2
    /\ grequests <= 2 * max_retries
    /\ Len(gcalls) = 2 => gcalls[1].failed /\ gcalls[2].reminders = 1
    /\ gpc # "llm" /\ gcalls # <<>> /\ gcalls[1].failed => Len(gcalls) = 2
    /\ gpc = "returned" /\ Len(gcalls) = 2 /\ gcalls[2].failed =>
         gret = Fallback(gfields)

\* C30: for every field passed with no stored history the returned list has a
\* scenario with the field's selector that carries at least 3 cases.
C30_ThreeCasesPerField ==
    gpc = "returned" /\ gfields # <<>> =>
        \A i \in 1..Len(gfields) :
            ~ServedFromHistory(i) =>
                \E j \in 1..Len(gret) :
                    /\ gret[j].selector = gfields[i].selector
                    /\ Len(gret[j].cases) >= 3

(***************************************************************************)
(* Properties of the heuristic fallback                                     *)
(***************************************************************************)
HasCase(cases, type) == \E k \in 1..Len(cases) : cases[k].type = type

\* C27: the fallback returns one scenario per input field, in input order and with
\* the field's selector, each with an invalid and a valid case; a field taken as
\* generic gets a script-injection payload, a field taken as email gets an invalid
\* case of payload "" and a valid case whose payload contains "@".
C27_FallbackShape ==
    gpc = "returned" =>
        /\ Len(gret) = Len(gfields)
        /\ \A i \in 1..Len(gfields) :
             LET cases == gret[i].cases
             IN  /\ gret[i].selector = gfields[i].selector
                 /\ HasCase(cases, "invalid")
                 /\ HasCase(cases, "valid")
                 /\ Category(gfields[i]) = "generic" =>
                      \E k \in 1..Len(cases) :
                          Contains(<<"<","s","c","r","i","p","t",">">>, cases[k].payload)
                 /\ Category(gfields[i]) = "email" =>
                      /\ \E k \in 1..Len(cases) :
                           cases[k].type = "invalid" /\ cases[k].payload = <<>>
                      /\ \E k \in 1..Len(cases) :
                           cases[k].type = "valid" /\ Contains(<<"@">>, cases[k].payload)

C27_Witness ==
    /\ gpc = "returned"
    /\ Len(gfields) = 2
    /\ Category(gfields[1]) = "generic"
    /\ Category(gfields[2]) = "email"
    /\ gret[1].selector = "#h9"
    /\ gret[1].cases[3].payload = ScriptInjection
    /\ gret[2].selector = "#h3"
    /\ Contains(<<"@">>, gret[2].cases[3].payload)

\* the keyword occurs in at least one of the field's name, placeholder and role
InAny(keyword, f) ==
    \E k \in {"name", "placeholder", "role"} :
        Contains(keyword, lower(Or(Get(f, k), <<>>)))

\* email, password, name-like, numeric-like in that precedence, generic when no
\* keyword occurs in any of the three
CategoryByAny(f) ==
    IF InAny(<<"e","m","a","i","l">>, f) THEN "email"
    ELSE IF InAny(<<"p","a","s","s">>, f) THEN "password"
    ELSE IF InAny(<<"n","a","m","e">>, f) THEN "name"
    ELSE IF \E k \in NumericKeywords : InAny(k, f) THEN "numeric"
    ELSE "generic"

\* C28: the heuristic classifies a field by the keywords found in any of its name,
\* placeholder or role, and the field gets the cases of that class.
C28_ClassifiedByAny ==
    gpc = "returned" =>
        \A i \in 1..Len(gfields) :
            gret[i].cases = CasesOf(CategoryByAny(gfields[i]))

(***************************************************************************)
(* Properties of try_parse_json_from_raw                                    *)
(***************************************************************************)
\* C29: for the text of every JSON array, try_parse_json_from_raw applied to the
\* text wrapped in fence markers returns the array, as it does applied to the bare
\* text, also when the array's strings hold brackets or backticks.
C29_FenceTransparent ==
    jpc = "done" =>
        /\ jbare = [ok |-> TRUE, value |-> jarray]
        /\ jwrapped = jbare

(***************************************************************************)
(* Properties of OllamaClient                                               *)
(***************************************************************************)
\* C31: generate sends at most max_retries requests; it raises without a request
\* when the client is not available; and it returns a value only as the text of an
\* attempt that completed: when no attempt completed it raises, for every
\* max_retries, 0 included.
C31_TextOrRaise ==
    /\ oc_requests <= oc_retries
    /\ oc_ret.op = "generate" /\ oc_first = "False" =>
         oc_ret.kind = "raised" /\ oc_requests = 0
    /\ oc_ret.op = "generate" /\ oc_ret.kind = "returned" =>
         oc_ret.value = "text" /\ oc_requests >= 1

\* C32: the liveness endpoint is probed at most once; what the first
\* check_available returned is what every later check_available returns and what
\* generate goes by, whatever the backend does afterwards.
C32_ProbedOnce ==
    /\ oc_probes <= 1
    /\ oc_first # "None" => _available = oc_first
    /\ oc_ret.op = "check_available" => oc_ret.value = oc_first
    /\ oc_ret.op = "generate" /\ oc_first = "False" => oc_ret.value = "ConnectionError"
    /\ oc_ret.op = "generate" /\ oc_ret.value = "ConnectionError" => oc_first = "False"

C32_Witness ==
    /\ oc_first = "False"
    /\ oc_backend = "serving"
    /\ oc_calls = 3
    /\ oc_probes = 1
    /\ oc_ret = [op |-> "generate", kind |-> "raised", value |-> "ConnectionError"]

(***************************************************************************)
(* Properties of the frontier's order and of the loop's pages               *)
(***************************************************************************)
NonDecreasing(s) == \A i, j \in 1..Len(s) : i <= j => s[i][2] <= s[j][2]

\* the depth at which the url was visited
VisitDepth(u) == visitLog[CHOOSE i \in 1..Len(visitLog) : visitLog[i][1] = u][2]

\* a step takes entries from the head of the frontier only and adds at its tail only
FifoStep ==
    \/ /\ Len(to_visit') >= Len(to_visit)
       /\ SubSeq(to_visit', 1, Len(to_visit)) = to_visit
    \/ to_visit # <<>> /\ to_visit' = Tail(to_visit)

\* C38: the frontier is consumed first-in-first-out and its depths are
\* non-decreasing from head to tail, pages are visited in non-decreasing depth
\* order, and a visited URL was visited at a depth no greater than that of any
\* entry enqueued for it.
C38_BreadthFirst ==
    /\ [](/\ NonDecreasing(to_visit)
          /\ NonDecreasing(visitLog)
          /\ \A i \in 1..Len(to_visit) :
               to_visit[i][1] \in visited => VisitDepth(to_visit[i][1]) <= to_visit[i][2])
    /\ [][FifoStep]_vars

C38_Witness ==
    /\ Len(visitLog) = 3
    /\ visitLog[3][2] = 1
    /\ \E i \in 1..Len(to_visit) :
         /\ to_visit[i][2] = 2
         /\ to_visit[i][1] \in visited
         /\ VisitDepth(to_visit[i][1]) = 1

OpenPages == { i \in 1..Len(pages) : ~pages[i].closeCalled }

\* C39: at most one page of the main loop is open at any time, and when the loop
\* is about to pop the next entry close() has been called on every page opened,
\* after a scan, after a navigation that failed and after a processing error.
C39_PageClosedBeforeNextPop ==
    /\ Cardinality(OpenPages) <= 1
    /\ OpenPages \subseteq {Len(pages)}
    /\ pc \in {"loop", "returned"} => OpenPages = {}

C39_Witness ==
    /\ pc = "loop"
    /\ Len(pages) = 3
    /\ Len(results) = 1
    /\ attempt = RetryAttempts
    /\ OpenPages = {}

(***************************************************************************)
(* Properties of the execution stage of a scan                              *)
(***************************************************************************)
\* C35: a navigation or execution failure on a page does not stop the loop: the
\* routine is not left by it, and at report assembly every page was taken and the
\* results are those of the pages without a failure.
C35_LoopSurvivesPageFailure ==
    /\ sc_cause \notin {"goto", "execute"}
    /\ sc_pc = "report" =>
         /\ Len(sc_log) = Len(sc_pages)
         /\ Len(sc_results) =
              Cardinality({ i \in 1..Len(sc_log) : FailedCall(sc_log[i]) = "none" })

\* C36: the execution results of a page hold at most one result for a selector and
\* a payload.
C36_CaseOncePerPage ==
    \A p \in 1..Len(sc_results) :
        \A i, j \in 1..Len(sc_results[p].results) :
            /\ sc_results[p].results[i].selector = sc_results[p].results[j].selector
            /\ sc_results[p].results[i].payload = sc_results[p].results[j].payload
            => i = j

(***************************************************************************)
(* Properties of a call made on an unreadable store                        *)
(***************************************************************************)
\* C37: when the backing file exists but cannot be read or parsed,
\* update_field_result works on an empty store and saves it: once the call has
\* written, the file holds the entry of the call's field, counted once with its
\* one case, and no other entry or key.
C37_UnreadableStoreReplaced ==
    kret.op = "update" /\ kret.read /\ kret.written =>
        /\ kfile.exists
        /\ ~kcorrupt
        /\ DOMAIN kfile.data = {"fields"}
        /\ DOMAIN kfile.data.fields = {kret.key}
        /\ kfile.data.fields[kret.key].stats.total = 1
        /\ Len(kfile.data.fields[kret.key].cases) = 1

\* The file held the entry of the email field and could not be read; the call
\* for another field has written, and the email field's entry is gone.
C37_Witness ==
    /\ kret.op = "update"
    /\ kret.read
    /\ kret.written
    /\ kret.had = {KeyOf[EmailField]}
    /\ kret.key = KeyOf[BarNameField]
    /\ DOMAIN kfile.data.fields = {KeyOf[BarNameField]}

\* What a reader of the backing file gets.
Stored(file, corrupt) ==
    IF file.exists /\ ~corrupt THEN file.data ELSE EmptyData

\* Across a call of save_knowledge the entries under fields stay as they were;
\* across a call of update_field_result every entry but the one of the call's
\* key, and every top-level key but fields, stays as it was.
C40_Step ==
    LET before == Stored(kfile, kcorrupt)
        after == Stored(kfile', kcorrupt')
    IN  /\ kret'.op = "save" => after.fields = before.fields
        /\ kret'.op = "update" =>
             /\ \A k \in DOMAIN before.fields \ {kret'.key} :
                    /\ k \in DOMAIN after.fields
                    /\ after.fields[k] = before.fields[k]
             /\ \A t \in DOMAIN before \ {"fields"} :
                    /\ t \in DOMAIN after
                    /\ after[t] = before[t]

\* C40: save_knowledge called with the keys last_generated and last_fallback
\* leaves every entry under fields unchanged, and update_field_result leaves
\* unchanged every entry other than the one of the given field's key and every
\* top-level key other than fields.
C40_FrameOfStoreCalls == [][C40_Step]_vars

(***************************************************************************)
(* Properties of the loop of crawl_site call by call                       *)
(***************************************************************************)
\* The calls that click an element or open a page.
ClicksOrOpens == {"el.click", "page.evaluate", "context.new_page"}

\* C33: a cancellation raised inside an automation call made during crawl_site
\* propagates out of crawl_site: from it on the routine is leaving (its finally
\* block, then raised), it never returns, and no element is clicked and no page
\* opened after it.
C33_CancellationPropagates ==
    lp_cancelled # "none" =>
        /\ lp_pc \in {"finally", "raised"}
        /\ lp_after \cap ClicksOrOpens = {}

\* While input() waits, the one step taken is the operator's signal.
C34_Step ==
    lp_pc = "input" =>
        /\ lp_last'.call = "input"
        /\ lp_last'.outcome \in OperatorSignals

====
